---------------------------- MODULE Spec2Model ----------------------------
(***************************************************************************)
(* A model of diffbreak-api: the /detect and /api/analyze request          *)
(* handlers, the GitHub page walks behind them (tag listing, commit        *)
(* compare, release-notes window scan), the prompt bundle, and the         *)
(* validation/normalisation of the model reply.                            *)
(*                                                                         *)
(* Strings the code cuts, trims or splits are sequences of tokens (a token *)
(* is a run of characters the code never looks inside): " " and "\n" are   *)
(* white space, "/" and ":" are the URL separators.  Go slices and         *)
(* pointers that may be nil are records carrying an isNil flag.            *)
(***************************************************************************)
EXTENDS Integers, Sequences, FiniteSets, TLC

VARIABLES
    handler,        \* "detect" | "analyze": which route the request hit
    req,            \* the inbound request
    ghTags,         \* upstream: the repository's tag listing, in provider order
    ghCompare,      \* upstream: the compare result (Commits, Files)
    ghReleases,     \* upstream: the repository's release listing, in provider order
    modelReply,     \* upstream: the text the model service answers with
    pc,             \* where the handler is
    ctxDone,        \* the request context's deadline has expired
    expiredAt,      \* pc at the moment the deadline expired ("no" before)
    owner, repo,    \* result of ParseGitHubRepoURL
    maxReleases,    \* the clamped limits.maxReleases handed to the aggregator
    optPage,        \* opt.Page of the page walk in progress
    tags,           \* GetRepoTags: tags accumulated
    commitTitles,   \* fetchComparisonData: commitTitles
    changedFiles,   \* fetchComparisonData: changedFiles
    notes,          \* fetchReleaseNotes: notes
    collecting,     \* fetchReleaseNotes: collecting
    endTag,         \* fetchReleaseNotes: endTag
    examined,       \* fetchReleaseNotes: release entries the scan has looked at
    data,           \* the comparisonData fetchComparisonData returned
    providerErr,    \* the error the last provider call returned, before mapping
    err,            \* the error a failed step returned to the handler
    prompt,         \* the JSON payload buildAnalysisPrompt embedded in the prompt
    analysis,       \* the AnalyzeResponse written with a 200
    detected,       \* the DetectResponse written with a 200
    response,       \* status and kind of what was written to the client
    calls           \* upstream calls issued so far, per operation

vars == <<handler, req, ghTags, ghCompare, ghReleases, modelReply, pc, ctxDone,
          expiredAt, owner, repo, maxReleases, optPage, tags, commitTitles,
          changedFiles, notes, collecting, endTag, examined, data, providerErr,
          err, prompt, analysis, detected, response, calls>>

(***************************************************************************)
(* Bounds of the model.                                                    *)
(***************************************************************************)
\* Tokens in the path part of a generated repository URL.
MaxPathTokens == 5

\* Entries in a generated tag listing.
MaxTagsListed == 3

\* Entries in a generated release listing.
MaxReleasesListed == 3

\* Commits and changed-file entries in a generated compare result.
MaxPagedReleases == 5
MaxCommits == 2

MaxFiles == 2

\* ListOptions{PerPage: 100}: entries the provider puts on one page.
PerPage == 2

\* len(body) > 5000: release bodies are cut to this many characters.
MaxBodyLen == 5000

\* len(sha) > 7: the commit hash prefix of a deep-mode title.
ShaPrefixLen == 7

(***************************************************************************)
(* Token strings.                                                          *)
(***************************************************************************)
IsSpace(t) == t \in {" ", "\n"}

RECURSIVE TrimLeftSpace(_)
TrimLeftSpace(s) ==
    IF s # <<>> /\ IsSpace(Head(s)) THEN TrimLeftSpace(Tail(s)) ELSE s

RECURSIVE TrimRightSpace(_)
TrimRightSpace(s) ==
    IF s # <<>> /\ IsSpace(s[Len(s)])
    THEN TrimRightSpace(SubSeq(s, 1, Len(s) - 1))
    ELSE s

\* strings.TrimSpace
TrimSpace(s) == TrimRightSpace(TrimLeftSpace(s))

RECURSIVE TrimLeftSlash(_)
TrimLeftSlash(s) ==
    IF s # <<>> /\ Head(s) = "/" THEN TrimLeftSlash(Tail(s)) ELSE s

RECURSIVE TrimRightSlash(_)
TrimRightSlash(s) ==
    IF s # <<>> /\ s[Len(s)] = "/"
    THEN TrimRightSlash(SubSeq(s, 1, Len(s) - 1))
    ELSE s

\* strings.Trim(s, "/"): every leading and trailing "/" is removed.
TrimSlashes(s) == TrimRightSlash(TrimLeftSlash(s))

\* strings.TrimSuffix(s, ".git"): one trailing ".git" is removed.
TrimSuffixGit(s) ==
    IF s # <<>> /\ s[Len(s)] = ".git" THEN SubSeq(s, 1, Len(s) - 1) ELSE s

\* strings.Split(s, sep): the pieces between the separators; Split of the
\* empty string is one empty piece.
RECURSIVE SplitOn(_, _)
SplitOn(s, sep) ==
    IF \A i \in 1..Len(s) : s[i] # sep
    THEN <<s>>
    ELSE LET i == CHOOSE k \in 1..Len(s) :
                      s[k] = sep /\ \A j \in 1..(k - 1) : s[j] # sep
         IN  <<SubSeq(s, 1, i - 1)>> \o SplitOn(SubSeq(s, i + 1, Len(s)), sep)

\* Case folding of the host tokens the model generates.
ToLower(t) == IF t = "GitHub.com" THEN "github.com" ELSE t

\* strings.EqualFold
EqualFold(s, t) ==
    /\ Len(s) = Len(t)
    /\ \A i \in 1..Len(s) : ToLower(s[i]) = ToLower(t[i])

(***************************************************************************)
(* Errors: values compared by identity (errors.Is) or by type (errors.As). *)
(***************************************************************************)
Err(kind, status) == [kind |-> kind, status |-> status]

NoError == Err("nil", 0)

ErrRepoNotFound == Err("ErrRepoNotFound", 0)

ErrRateLimited == Err("ErrRateLimited", 0)

ErrInvalidRepoURL == Err("ErrInvalidRepoURL", 0)

\* context.DeadlineExceeded, as the error a call interrupted by the deadline returns.
DeadlineExceeded == Err("context.DeadlineExceeded", 0)

\* A *github.ErrorResponse whose Response carries this HTTP status.
ErrorResponse(status) == Err("github.ErrorResponse", status)

\* Any error that is neither a *github.ErrorResponse nor a context error
\* (a transport failure, a decode error).
OtherError == Err("other", 0)

\* What a provider call can fail with while the context is live.
ProviderErrors ==
    {ErrorResponse(404), ErrorResponse(403), ErrorResponse(500), OtherError}

\* What a call cut short by the deadline returns: the context's error, or an
\* error that does not unwrap to it.
InterruptedErrors == {DeadlineExceeded, OtherError}

mapGitHubError_NoRateLimit(e) ==
    IF e.kind = "github.ErrorResponse" /\ e.status = 404
    THEN ErrRepoNotFound
    ELSE e

mapGitHubError(e) ==
    IF e.kind = "github.ErrorResponse"
    THEN CASE e.status = 404 -> ErrRepoNotFound
           [] e.status = 403 -> ErrRateLimited
           [] OTHER -> e
    ELSE e

(***************************************************************************)
(* ParseGitHubRepoURL.                                                     *)
(***************************************************************************)
\* Tokens made of characters a URL scheme may hold (letters, digits, + - .).
SchemeTokens == {"https", "http", "github.com", "GitHub.com", "gitlab.com",
                 "github.mycorp.com", "octo", "hello", ".git"}

\* url.Parse on a trimmed token string without query, fragment, user info or
\* escapes: the scheme is what precedes the first ":" if only scheme
\* characters precede it and the first is a letter; after "//" the authority
\* runs to the next "/"; the rest is the path.
url_Parse(s) ==
    LET stops == {i \in 1..Len(s) : s[i] \notin SchemeTokens}
        stop == IF stops = {} THEN 0
                ELSE CHOOSE i \in stops : \A j \in stops : i <= j
        hasScheme == stop > 1 /\ s[stop] = ":" /\ s[1] # ".git"
        rest == IF hasScheme THEN SubSeq(s, stop + 1, Len(s)) ELSE s
        hasAuthority ==
            /\ Len(rest) >= 2 /\ rest[1] = "/" /\ rest[2] = "/"
            /\ (hasScheme \/ ~(Len(rest) >= 3 /\ rest[3] = "/"))
        afterSlashes == SubSeq(rest, 3, Len(rest))
        cut == SplitOn(afterSlashes, "/")[1]
    IN  [ok     |-> ~(stop = 1 /\ s[1] = ":")
                    /\ ~(~hasScheme /\ stop > 1 /\ s[stop] = ":"),
         Scheme |-> IF hasScheme
                    THEN [i \in 1..(stop - 1) |-> ToLower(s[i])]
                    ELSE <<>>,
         Host   |-> IF hasAuthority THEN cut ELSE <<>>,
         Path   |-> IF hasAuthority
                    THEN SubSeq(afterSlashes, Len(cut) + 1, Len(afterSlashes))
                    ELSE IF hasScheme /\ (rest = <<>> \/ rest[1] # "/")
                         THEN <<>>
                         ELSE rest]

ParseResult(e, o, r) == [err |-> e, owner |-> o, repo |-> r]

ParseGitHubRepoURL(repoURL) ==
    LET trimmed == TrimSpace(repoURL)
        u == url_Parse(trimmed)
        path == TrimSuffixGit(TrimSlashes(u.Path))
        parts == SplitOn(path, "/")
        invalid == ParseResult(ErrInvalidRepoURL, <<>>, <<>>)
    IN  IF trimmed = <<>> THEN invalid
        ELSE IF ~u.ok THEN invalid
        ELSE IF u.Scheme # <<"https">> THEN invalid
        ELSE IF ~EqualFold(u.Host, <<"github.com">>) THEN invalid
        ELSE IF TrimSlashes(u.Path) = <<>> THEN invalid
        ELSE IF Len(parts) # 2 THEN invalid
        ELSE IF parts[1] = <<>> \/ parts[2] = <<>> THEN invalid
        ELSE ParseResult(NoError, parts[1], parts[2])

(***************************************************************************)
(* Go slices and the provider's pagination.                                *)
(***************************************************************************)
NilSlice == [isNil |-> TRUE, elems |-> <<>>]

Slice(s) == [isNil |-> FALSE, elems |-> s]

\* append(slice, x): the result is never nil.
GoAppend(slice, x) == Slice(Append(slice.elems, x))

Min(a, b) == IF a <= b THEN a ELSE b

\* Sequences over S of length at most n.
SeqsUpTo(S, n) == UNION {[1..k -> S] : k \in 0..n}

\* One page of a provider listing: opt.Page 0 asks for the first page; the
\* response's NextPage is 0 when no page follows.
ListPage(listing, page) ==
    LET p == IF page = 0 THEN 1 ELSE page
    IN  [entries  |-> SubSeq(listing, (p - 1) * PerPage + 1,
                             Min(p * PerPage, Len(listing))),
         NextPage |-> IF p * PerPage < Len(listing) THEN p + 1 ELSE 0]

(***************************************************************************)
(* Upstream data the model draws from.                                     *)
(***************************************************************************)
\* *github.RepositoryTag: a nil entry, an entry without a name, named entries.
TagEntry(isNil, hasName, name) ==
    [isNil |-> isNil, hasName |-> hasName, Name |-> name]

TagEntries ==
    {TagEntry(TRUE, FALSE, <<>>), TagEntry(FALSE, FALSE, <<>>),
     TagEntry(FALSE, TRUE, <<"v1">>), TagEntry(FALSE, TRUE, <<"v2">>)}

\* *github.RepositoryRelease: GetTagName and GetBody give "" for an absent
\* field; Body is the length of the body text.
Release(isNil, tagName, body) ==
    [isNil |-> isNil, TagName |-> tagName, Body |-> body]

ReleaseEntries ==
    {Release(TRUE, <<>>, 0),
     Release(FALSE, <<"v1">>, 19),
     Release(FALSE, <<" ", "v1">>, 5001),
     Release(FALSE, <<"v2">>, 5000),
     Release(FALSE, <<"v3">>, 0),
     Release(FALSE, <<" ">>, 7)}

\* *github.RepositoryCommit: SHA is a sequence of characters, Message a
\* token string ("" when Commit.Message is absent).
Commit(isNil, hasCommit, sha, message) ==
    [isNil |-> isNil, hasCommit |-> hasCommit, SHA |-> sha, Message |-> message]

Sha9 == <<"a", "b", "c", "1", "2", "3", "4", "5", "6">>

CommitEntries ==
    {Commit(TRUE, FALSE, <<>>, <<>>),
     Commit(FALSE, FALSE, SubSeq(Sha9, 1, 7), <<>>),
     Commit(FALSE, TRUE, SubSeq(Sha9, 1, 7), <<"feat: add API">>),
     Commit(FALSE, TRUE, Sha9, <<" ", "fix", " ", "\n", "\n", "details">>),
     Commit(FALSE, TRUE, SubSeq(Sha9, 1, 2), <<" ", "\n">>),
     Commit(FALSE, TRUE, <<>>, <<"docs", "\n", "more">>)}

\* *github.CommitFile: GetFilename gives "" for an absent name.
File(isNil, name) == [isNil |-> isNil, Filename |-> name]

FileEntries ==
    {File(TRUE, <<>>), File(FALSE, <<>>),
     File(FALSE, <<"pkg/api.go">>), File(FALSE, <<"README.md">>)}

CompareResult(commits, files) == [Commits |-> commits, Files |-> files]

(***************************************************************************)
(* fetchComparisonData: commit titles and changed files.                   *)
(***************************************************************************)
\* The title of one commit, as a slice of zero or one titles: nothing for a
\* nil entry, a nil Commit or a message that is empty once trimmed.
commitTitle(c, mode) ==
    LET message == TrimSpace(c.Message)
        title == SplitOn(message, "\n")[1]
        sha == IF Len(c.SHA) > ShaPrefixLen
               THEN SubSeq(c.SHA, 1, ShaPrefixLen)
               ELSE c.SHA
    IN  IF c.isNil \/ ~c.hasCommit THEN <<>>
        ELSE IF message = <<>> THEN <<>>
        ELSE IF mode = "deep" /\ sha # <<>> THEN <<sha \o <<": ">> \o title>>
        ELSE <<title>>

RECURSIVE collectCommitTitles(_, _)
collectCommitTitles(commits, mode) ==
    IF commits = <<>> THEN <<>>
    ELSE commitTitle(Head(commits), mode) \o collectCommitTitles(Tail(commits), mode)

\* The loop over compare.Files: nil entries, empty names and names already
\* seen are skipped; the slice stays nil until the first append.
RECURSIVE collectChangedFiles(_, _)
collectChangedFiles(files, acc) ==
    IF files = <<>> THEN acc
    ELSE LET f == Head(files)
             skip == \/ f.isNil
                     \/ f.Filename = <<>>
                     \/ \E i \in 1..Len(acc.elems) : acc.elems[i] = f.Filename
         IN  collectChangedFiles(Tail(files),
                                 IF skip THEN acc ELSE GoAppend(acc, f.Filename))

changedFilesFor(compare, mode) ==
    IF mode = "deep" THEN collectChangedFiles(compare.Files, NilSlice) ELSE NilSlice

(***************************************************************************)
(* fetchReleaseNotes: the window scan.                                     *)
(***************************************************************************)
clampReleaseNotes(ns, max) ==
    IF max <= 0 THEN ns
    ELSE IF Len(ns) > max THEN SubSeq(ns, 1, max)
    ELSE ns

releaseNote(tag, body) == [Tag |-> tag, Body |-> body]

ScanState(ns, coll, end, returned, seen) ==
    [notes |-> ns, collecting |-> coll, endTag |-> end,
     returned |-> returned, examined |-> seen]

\* The end boundary chosen when the start boundary is matched.
endTagFor_Same(tag, fromTag, toTag) == IF tag = fromTag THEN fromTag ELSE toTag

endTagFor(tag, fromTag, toTag) == IF tag = fromTag THEN toTag ELSE fromTag

\* The iteration that does not test the release that starts the collection
\* against the end boundary.
scanRelease_EndAfterStart(rel, st, fromTag, toTag, max) ==
    LET tag == TrimSpace(rel.TagName)
        seen == st.examined + 1
        skipped == ScanState(st.notes, st.collecting, st.endTag, FALSE, seen)
        starts == ~st.collecting /\ (tag = fromTag \/ tag = toTag)
        end == IF starts THEN endTagFor(tag, fromTag, toTag) ELSE st.endTag
        body == IF rel.Body > MaxBodyLen THEN MaxBodyLen ELSE rel.Body
        ns == Append(st.notes, releaseNote(tag, body))
    IN  IF rel.isNil THEN skipped
        ELSE IF tag = <<>> THEN skipped
        ELSE IF ~st.collecting /\ ~starts THEN skipped
        ELSE IF (~starts /\ tag = end) \/ Len(ns) >= max
             THEN ScanState(ns, TRUE, end, TRUE, seen)
             ELSE ScanState(ns, TRUE, end, FALSE, seen)

\* The iteration without its return at the end boundary.
scanRelease_NoStopAtEnd(rel, st, fromTag, toTag, max) ==
    LET tag == TrimSpace(rel.TagName)
        seen == st.examined + 1
        skipped == ScanState(st.notes, st.collecting, st.endTag, FALSE, seen)
        starts == ~st.collecting /\ (tag = fromTag \/ tag = toTag)
        end == IF starts THEN endTagFor(tag, fromTag, toTag) ELSE st.endTag
        body == IF rel.Body > MaxBodyLen THEN MaxBodyLen ELSE rel.Body
        ns == Append(st.notes, releaseNote(tag, body))
    IN  IF rel.isNil THEN skipped
        ELSE IF tag = <<>> THEN skipped
        ELSE IF ~st.collecting /\ ~starts THEN skipped
        ELSE IF Len(ns) >= max
             THEN ScanState(ns, TRUE, end, TRUE, seen)
             ELSE ScanState(ns, TRUE, end, FALSE, seen)

\* The iteration with the limit tested by > in place of >=.
scanRelease_LateStop(rel, st, fromTag, toTag, max) ==
    LET tag == TrimSpace(rel.TagName)
        seen == st.examined + 1
        skipped == ScanState(st.notes, st.collecting, st.endTag, FALSE, seen)
        starts == ~st.collecting /\ (tag = fromTag \/ tag = toTag)
        end == IF starts THEN endTagFor(tag, fromTag, toTag) ELSE st.endTag
        body == IF rel.Body > MaxBodyLen THEN MaxBodyLen ELSE rel.Body
        ns == Append(st.notes, releaseNote(tag, body))
    IN  IF rel.isNil THEN skipped
        ELSE IF tag = <<>> THEN skipped
        ELSE IF ~st.collecting /\ ~starts THEN skipped
        ELSE IF tag = end \/ Len(ns) > max
             THEN ScanState(ns, TRUE, end, TRUE, seen)
             ELSE ScanState(ns, TRUE, end, FALSE, seen)

\* One iteration of the loop over a page's releases; returned says that the
\* iteration ended in one of the loop's return statements.
scanRelease(rel, st, fromTag, toTag, max) ==
    LET tag == TrimSpace(rel.TagName)
        seen == st.examined + 1
        skipped == ScanState(st.notes, st.collecting, st.endTag, FALSE, seen)
        starts == ~st.collecting /\ (tag = fromTag \/ tag = toTag)
        end == IF starts THEN endTagFor(tag, fromTag, toTag) ELSE st.endTag
        body == IF rel.Body > MaxBodyLen THEN MaxBodyLen ELSE rel.Body
        ns == Append(st.notes, releaseNote(tag, body))
    IN  IF rel.isNil THEN skipped
        ELSE IF tag = <<>> THEN skipped
        ELSE IF ~st.collecting /\ ~starts THEN skipped
        ELSE IF tag = end \/ Len(ns) >= max
             THEN ScanState(ns, TRUE, end, TRUE, seen)
             ELSE ScanState(ns, TRUE, end, FALSE, seen)

\* The scan's locals as a new page arrives: notes, collecting and endTag
\* are declared before the page loop and keep their values.
resumeScan_Fresh(ns, coll, end, seen) == ScanState(ns, FALSE, <<>>, FALSE, seen)

resumeScan(ns, coll, end, seen) == ScanState(ns, coll, end, FALSE, seen)

\* What fetchReleaseNotes returns with a nil error: notes starts as an empty
\* slice, so the result is never nil.
returnedNotes_NilWhenEmpty(ns, max) ==
    IF ns = <<>> THEN NilSlice ELSE Slice(clampReleaseNotes(ns, max))

returnedNotes(ns, max) == Slice(clampReleaseNotes(ns, max))

\* The loop over one page: it ends with the page, or at a return.
RECURSIVE scanPage(_, _, _, _, _)
scanPage(releases, st, fromTag, toTag, max) ==
    IF releases = <<>> \/ st.returned THEN st
    ELSE scanPage(Tail(releases),
                  scanRelease(Head(releases), st, fromTag, toTag, max),
                  fromTag, toTag, max)

(***************************************************************************)
(* buildAnalysisPrompt: the JSON encoding of the bundle.                   *)
(***************************************************************************)
\* encoding/json of a slice: null for a nil slice, an array otherwise.
MarshalSlice(slice) ==
    IF slice.isNil THEN [t |-> "null", a |-> <<>>]
    ELSE [t |-> "arr", a |-> slice.elems]

analysisInputBundle(repoUrl, fromTag, toTag, d) ==
    [Repo |-> repoUrl, From |-> fromTag, To |-> toTag,
     ReleaseNotes |-> d.ReleaseNotes, CommitTitles |-> d.CommitTitles,
     ChangedFiles |-> d.ChangedFiles]

\* The JSON object json.Marshal(bundle) writes, as a function of its keys:
\* changedFiles carries omitempty, which drops a slice of length 0.
buildAnalysisPrompt(bundle) ==
    LET always == [repo         |-> [t |-> "str", a |-> bundle.Repo],
                   from         |-> [t |-> "str", a |-> bundle.From],
                   to           |-> [t |-> "str", a |-> bundle.To],
                   releaseNotes |-> MarshalSlice(bundle.ReleaseNotes),
                   commitTitles |-> MarshalSlice(bundle.CommitTitles)]
    IN  IF Len(bundle.ChangedFiles.elems) = 0
        THEN always
        ELSE always @@ [changedFiles |-> MarshalSlice(bundle.ChangedFiles)]

\* No prompt built yet.
NoPrompt == [k \in {} |-> [t |-> "null", a |-> <<>>]]

comparisonData(ns, titles, files) ==
    [ReleaseNotes |-> ns, CommitTitles |-> titles, ChangedFiles |-> files]

\* comparisonData{}
NoData == comparisonData(NilSlice, NilSlice, NilSlice)

\* A failed aggregation that hands back what it had gathered.
abortedData_Partial(ns, titles, files) == comparisonData(Slice(ns), titles, files)

\* What fetchComparisonData returns beside the error when a provider call
\* failed: comparisonData{}, whatever was gathered before.
abortedData(ns, titles, files) == NoData

(***************************************************************************)
(* The model reply as JSON text, and its decoding into AnalyzeResponse.    *)
(*                                                                         *)
(* A JSON value carries a tag t: a key that is missing ("absent"), null,   *)
(* a value of the expected JSON type ("str", "int", "arr", "obj"), or a    *)
(* value of another JSON type ("bad": a number where a string is expected, *)
(* 85.5 or "85" where an int is expected, ...).                            *)
(***************************************************************************)
JStr(t, s) == [t |-> t, s |-> s]

JInt(t, n) == [t |-> t, n |-> n]

JArr(t, a) == [t |-> t, a |-> a]

JLink(t, label, url) == [t |-> t, label |-> label, url |-> url]

JGroup(t, title, items) == [t |-> t, title |-> title, items |-> items]

JBreaker(t, title, severity, reason, evidence) ==
    [t |-> t, title |-> title, severity |-> severity, reason |-> reason,
     evidence |-> evidence]

JChange(t, title, reason, evidence) ==
    [t |-> t, title |-> title, reason |-> reason, evidence |-> evidence]

JStep(t, step, why, evidence) ==
    [t |-> t, step |-> step, why |-> why, evidence |-> evidence]

JItem(t, label, url, kind) == [t |-> t, label |-> label, url |-> url, kind |-> kind]

JRisk(t, level, score, confidence, reasons) ==
    [t |-> t, level |-> level, score |-> score, confidence |-> confidence,
     reasons |-> reasons]

JSummary(t, highlights, grouped) ==
    [t |-> t, highlights |-> highlights, grouped |-> grouped]

JMeta(t, url, fromTag, toTag, generatedAt) ==
    [t |-> t, url |-> url, fromTag |-> fromTag, toTag |-> toTag,
     generatedAt |-> generatedAt]

\* top: "blank" (nothing but white space), "garbage" (not JSON), "scalar" (JSON
\* of another type than an object), "null", or "obj".
JReply(top, risk, summary, breakers, behaviorChanges, upgradeSteps, evidence, meta) ==
    [top |-> top, risk |-> risk, summary |-> summary, breakers |-> breakers,
     behaviorChanges |-> behaviorChanges, upgradeSteps |-> upgradeSteps,
     evidence |-> evidence, meta |-> meta]

Decoded(ok, v) == [ok |-> ok, v |-> v]

\* A string field: a missing key or null leaves the zero value.
DecStr(j) == Decoded(j.t # "bad", IF j.t = "str" THEN j.s ELSE "")

\* A token-string field (meta).
DecText(j) == Decoded(j.t # "bad", IF j.t = "str" THEN j.s ELSE <<>>)

DecInt(j) == Decoded(j.t # "bad", IF j.t = "int" THEN j.n ELSE 0)

AllOk(ds) == \A i \in 1..Len(ds) : ds[i].ok

Values(ds) == [i \in 1..Len(ds) |-> ds[i].v]

\* A slice field given its decoded elements: a missing key or null leaves
\* nil, an array (an empty one too) gives a non-nil slice.
DecSlice(j, ds) ==
    Decoded(j.t # "bad" /\ (j.t = "arr" => AllOk(ds)),
            IF j.t = "arr" THEN Slice(Values(ds)) ELSE NilSlice)

DecStrSlice(j) == DecSlice(j, [i \in 1..Len(j.a) |-> DecStr(j.a[i])])

EvidenceLink(label, url) == [Label |-> label, Url |-> url]

DecLink(j) ==
    LET l == DecStr(j.label)
        u == DecStr(j.url)
    IN  IF j.t = "obj" THEN Decoded(l.ok /\ u.ok, EvidenceLink(l.v, u.v))
        ELSE Decoded(j.t # "bad", EvidenceLink("", ""))

DecLinks(j) == DecSlice(j, [i \in 1..Len(j.a) |-> DecLink(j.a[i])])

GroupedSummary(title, items) == [Title |-> title, Items |-> items]

DecGroup(j) ==
    LET t == DecStr(j.title)
        i == DecStrSlice(j.items)
    IN  IF j.t = "obj" THEN Decoded(t.ok /\ i.ok, GroupedSummary(t.v, i.v))
        ELSE Decoded(j.t # "bad", GroupedSummary("", NilSlice))

Breaker(title, severity, reason, evidence) ==
    [Title |-> title, Severity |-> severity, Reason |-> reason, Evidence |-> evidence]

DecBreaker(j) ==
    LET t == DecStr(j.title)
        s == DecStr(j.severity)
        r == DecStr(j.reason)
        e == DecLinks(j.evidence)
    IN  IF j.t = "obj"
        THEN Decoded(t.ok /\ s.ok /\ r.ok /\ e.ok, Breaker(t.v, s.v, r.v, e.v))
        ELSE Decoded(j.t # "bad", Breaker("", "", "", NilSlice))

BehaviorChange(title, reason, evidence) ==
    [Title |-> title, Reason |-> reason, Evidence |-> evidence]

DecChange(j) ==
    LET t == DecStr(j.title)
        r == DecStr(j.reason)
        e == DecLinks(j.evidence)
    IN  IF j.t = "obj" THEN Decoded(t.ok /\ r.ok /\ e.ok, BehaviorChange(t.v, r.v, e.v))
        ELSE Decoded(j.t # "bad", BehaviorChange("", "", NilSlice))

UpgradeStep(step, why, evidence) == [Step |-> step, Why |-> why, Evidence |-> evidence]

DecStep(j) ==
    LET s == DecStr(j.step)
        w == DecStr(j.why)
        e == DecLinks(j.evidence)
    IN  IF j.t = "obj" THEN Decoded(s.ok /\ w.ok /\ e.ok, UpgradeStep(s.v, w.v, e.v))
        ELSE Decoded(j.t # "bad", UpgradeStep("", "", NilSlice))

EvidenceItem(label, url, kind) == [Label |-> label, Url |-> url, Kind |-> kind]

DecItem(j) ==
    LET l == DecStr(j.label)
        u == DecStr(j.url)
        k == DecStr(j.kind)
    IN  IF j.t = "obj" THEN Decoded(l.ok /\ u.ok /\ k.ok, EvidenceItem(l.v, u.v, k.v))
        ELSE Decoded(j.t # "bad", EvidenceItem("", "", ""))

RiskInfo(level, score, confidence, reasons) ==
    [Level |-> level, Score |-> score, Confidence |-> confidence, Reasons |-> reasons]

DecRisk(j) ==
    LET l == DecStr(j.level)
        s == DecInt(j.score)
        c == DecStr(j.confidence)
        r == DecStrSlice(j.reasons)
    IN  IF j.t = "obj"
        THEN Decoded(l.ok /\ s.ok /\ c.ok /\ r.ok, RiskInfo(l.v, s.v, c.v, r.v))
        ELSE Decoded(j.t # "bad", RiskInfo("", 0, "", NilSlice))

SummaryInfo(highlights, grouped) == [Highlights |-> highlights, Grouped |-> grouped]

DecSummary(j) ==
    LET h == DecStrSlice(j.highlights)
        g == DecSlice(j.grouped, [i \in 1..Len(j.grouped.a) |-> DecGroup(j.grouped.a[i])])
    IN  IF j.t = "obj" THEN Decoded(h.ok /\ g.ok, SummaryInfo(h.v, g.v))
        ELSE Decoded(j.t # "bad", SummaryInfo(NilSlice, NilSlice))

MetaInfo(url, fromTag, toTag, generatedAt) ==
    [Repo |-> [Url |-> url], FromTag |-> fromTag, ToTag |-> toTag,
     GeneratedAt |-> generatedAt]

DecMeta(j) ==
    LET u == DecText(j.url)
        f == DecText(j.fromTag)
        t == DecText(j.toTag)
        g == DecText(j.generatedAt)
    IN  IF j.t = "obj"
        THEN Decoded(u.ok /\ f.ok /\ t.ok /\ g.ok, MetaInfo(u.v, f.v, t.v, g.v))
        ELSE Decoded(j.t # "bad", MetaInfo(<<>>, <<>>, <<>>, <<>>))

AnalyzeResponse(risk, summary, breakers, behaviorChanges, upgradeSteps, evidence, meta) ==
    [Risk |-> risk, Summary |-> summary, Breakers |-> breakers,
     BehaviorChanges |-> behaviorChanges, UpgradeSteps |-> upgradeSteps,
     Evidence |-> evidence, Meta |-> meta]

\* AnalyzeResponse{}
ZeroResponse ==
    AnalyzeResponse(RiskInfo("", 0, "", NilSlice), SummaryInfo(NilSlice, NilSlice),
                    NilSlice, NilSlice, NilSlice, NilSlice,
                    MetaInfo(<<>>, <<>>, <<>>, <<>>))

\* json.Unmarshal(raw, &resp) for raw that is not blank.
Unmarshal(j) ==
    LET r == DecRisk(j.risk)
        s == DecSummary(j.summary)
        b == DecSlice(j.breakers,
                      [i \in 1..Len(j.breakers.a) |-> DecBreaker(j.breakers.a[i])])
        c == DecSlice(j.behaviorChanges,
                      [i \in 1..Len(j.behaviorChanges.a) |->
                          DecChange(j.behaviorChanges.a[i])])
        u == DecSlice(j.upgradeSteps,
                      [i \in 1..Len(j.upgradeSteps.a) |-> DecStep(j.upgradeSteps.a[i])])
        e == DecSlice(j.evidence,
                      [i \in 1..Len(j.evidence.a) |-> DecItem(j.evidence.a[i])])
        m == DecMeta(j.meta)
    IN  CASE j.top = "obj" ->
               Decoded(r.ok /\ s.ok /\ b.ok /\ c.ok /\ u.ok /\ e.ok /\ m.ok,
                       AnalyzeResponse(r.v, s.v, b.v, c.v, u.v, e.v, m.v))
          [] j.top = "null" -> Decoded(TRUE, ZeroResponse)
          [] OTHER -> Decoded(FALSE, ZeroResponse)

(***************************************************************************)
(* validateAndNormalizeResponse.                                           *)
(***************************************************************************)
clampScore_Wrap(score) ==
    IF score < 0 THEN 0
    ELSE IF score > 100 THEN score - 100
    ELSE score

clampScore(score) ==
    IF score < 0 THEN 0
    ELSE IF score > 100 THEN 100
    ELSE score

riskLevelForScore_Below24(score) ==
    IF score < 24 THEN "low"
    ELSE IF score <= 59 THEN "medium"
    ELSE "high"

riskLevelForScore(score) ==
    IF score <= 24 THEN "low"
    ELSE IF score <= 59 THEN "medium"
    ELSE "high"

\* if x == nil { x = []T{} }
nonNil(slice) == IF slice.isNil THEN Slice(<<>>) ELSE slice

\* for i := range xs { if xs[i].Evidence == nil { xs[i].Evidence = []EvidenceLink{} } }
withEvidence(slice) ==
    [slice EXCEPT !.elems =
        [i \in 1..Len(slice.elems) |->
            [slice.elems[i] EXCEPT !.Evidence = nonNil(@)]]]

withItems(slice) ==
    [slice EXCEPT !.elems =
        [i \in 1..Len(slice.elems) |-> [slice.elems[i] EXCEPT !.Items = nonNil(@)]]]

Normalized(e, resp) == [err |-> e, resp |-> resp]

\* The normalisation with the loop over summary.grouped left out.
validateAndNormalizeResponse_NoItems(raw) ==
    LET d == Unmarshal(raw)
        score == clampScore(d.v.Risk.Score)
    IN  IF raw.top = "blank" THEN Normalized(OtherError, ZeroResponse)
        ELSE IF ~d.ok THEN Normalized(OtherError, ZeroResponse)
        ELSE Normalized(NoError,
                AnalyzeResponse(
                    RiskInfo(riskLevelForScore(score), score, d.v.Risk.Confidence,
                             nonNil(d.v.Risk.Reasons)),
                    SummaryInfo(nonNil(d.v.Summary.Highlights),
                                nonNil(d.v.Summary.Grouped)),
                    withEvidence(nonNil(d.v.Breakers)),
                    withEvidence(nonNil(d.v.BehaviorChanges)),
                    withEvidence(nonNil(d.v.UpgradeSteps)),
                    nonNil(d.v.Evidence),
                    d.v.Meta))

\* The normalisation with the error of json.Unmarshal dropped.
validateAndNormalizeResponse_IgnoreErr(raw) ==
    LET d == Unmarshal(raw)
        score == clampScore(d.v.Risk.Score)
    IN  IF raw.top = "blank" THEN Normalized(OtherError, ZeroResponse)
        ELSE Normalized(NoError,
                AnalyzeResponse(
                    RiskInfo(riskLevelForScore(score), score, d.v.Risk.Confidence,
                             nonNil(d.v.Risk.Reasons)),
                    SummaryInfo(nonNil(d.v.Summary.Highlights),
                                withItems(nonNil(d.v.Summary.Grouped))),
                    withEvidence(nonNil(d.v.Breakers)),
                    withEvidence(nonNil(d.v.BehaviorChanges)),
                    withEvidence(nonNil(d.v.UpgradeSteps)),
                    nonNil(d.v.Evidence),
                    d.v.Meta))

validateAndNormalizeResponse(raw) ==
    LET d == Unmarshal(raw)
        score == clampScore(d.v.Risk.Score)
    IN  IF raw.top = "blank" THEN Normalized(OtherError, ZeroResponse)
        ELSE IF ~d.ok THEN Normalized(OtherError, ZeroResponse)
        ELSE Normalized(NoError,
                AnalyzeResponse(
                    RiskInfo(riskLevelForScore(score), score, d.v.Risk.Confidence,
                             nonNil(d.v.Risk.Reasons)),
                    SummaryInfo(nonNil(d.v.Summary.Highlights),
                                withItems(nonNil(d.v.Summary.Grouped))),
                    withEvidence(nonNil(d.v.Breakers)),
                    withEvidence(nonNil(d.v.BehaviorChanges)),
                    withEvidence(nonNil(d.v.UpgradeSteps)),
                    nonNil(d.v.Evidence),
                    d.v.Meta))

(***************************************************************************)
(* json.Marshal of an AnalyzeResponse: every key is written (no field      *)
(* carries omitempty), a nil slice as null, any other slice as an array.   *)
(***************************************************************************)
EncArr(slice, elems) ==
    IF slice.isNil THEN JArr("null", <<>>) ELSE JArr("arr", elems)

EncStrs(slice) ==
    EncArr(slice, [i \in 1..Len(slice.elems) |-> JStr("str", slice.elems[i])])

EncLinks(slice) ==
    EncArr(slice, [i \in 1..Len(slice.elems) |->
                      JLink("obj", JStr("str", slice.elems[i].Label),
                            JStr("str", slice.elems[i].Url))])

MarshalResponse(r) ==
    JReply("obj",
        JRisk("obj", JStr("str", r.Risk.Level), JInt("int", r.Risk.Score),
              JStr("str", r.Risk.Confidence), EncStrs(r.Risk.Reasons)),
        JSummary("obj", EncStrs(r.Summary.Highlights),
            EncArr(r.Summary.Grouped,
                [i \in 1..Len(r.Summary.Grouped.elems) |->
                    JGroup("obj", JStr("str", r.Summary.Grouped.elems[i].Title),
                           EncStrs(r.Summary.Grouped.elems[i].Items))])),
        EncArr(r.Breakers,
            [i \in 1..Len(r.Breakers.elems) |->
                JBreaker("obj", JStr("str", r.Breakers.elems[i].Title),
                         JStr("str", r.Breakers.elems[i].Severity),
                         JStr("str", r.Breakers.elems[i].Reason),
                         EncLinks(r.Breakers.elems[i].Evidence))]),
        EncArr(r.BehaviorChanges,
            [i \in 1..Len(r.BehaviorChanges.elems) |->
                JChange("obj", JStr("str", r.BehaviorChanges.elems[i].Title),
                        JStr("str", r.BehaviorChanges.elems[i].Reason),
                        EncLinks(r.BehaviorChanges.elems[i].Evidence))]),
        EncArr(r.UpgradeSteps,
            [i \in 1..Len(r.UpgradeSteps.elems) |->
                JStep("obj", JStr("str", r.UpgradeSteps.elems[i].Step),
                      JStr("str", r.UpgradeSteps.elems[i].Why),
                      EncLinks(r.UpgradeSteps.elems[i].Evidence))]),
        EncArr(r.Evidence,
            [i \in 1..Len(r.Evidence.elems) |->
                JItem("obj", JStr("str", r.Evidence.elems[i].Label),
                      JStr("str", r.Evidence.elems[i].Url),
                      JStr("str", r.Evidence.elems[i].Kind))]),
        JMeta("obj", JStr("str", r.Meta.Repo.Url), JStr("str", r.Meta.FromTag),
              JStr("str", r.Meta.ToTag), JStr("str", r.Meta.GeneratedAt)))

(***************************************************************************)
(* Responses.                                                              *)
(***************************************************************************)
\* kind: "none" (nothing written), "text" (http.Error), "error" (a JSON
\* errorResponse), "detect" (a DetectResponse), "analysis" (an AnalyzeResponse).
Response(status, kind, msg) == [status |-> status, kind |-> kind, msg |-> msg]

NoResponse == Response(0, "none", "")

handleAnalyzeError_ErrOnly(e, deadlineExceeded) ==
    IF e = DeadlineExceeded THEN Response(504, "error", "request timed out")
    ELSE IF e = ErrRepoNotFound THEN Response(404, "error", "repository not found")
    ELSE IF e = ErrRateLimited
         THEN Response(429, "error", "github rate limit exceeded")
    ELSE Response(500, "error", "internal server error")

\* What AnalyzeHandler writes when validateAndNormalizeResponse fails.
modelResponseInvalid == Response(500, "error", "model returned invalid JSON")

\* deadlineExceeded: errors.Is(ctx.Err(), context.DeadlineExceeded)
handleAnalyzeError(e, deadlineExceeded) ==
    IF e = DeadlineExceeded \/ deadlineExceeded
    THEN Response(504, "error", "request timed out")
    ELSE IF e = ErrRepoNotFound THEN Response(404, "error", "repository not found")
    ELSE IF e = ErrRateLimited
         THEN Response(429, "error", "github rate limit exceeded")
    ELSE Response(500, "error", "internal server error")

\* The error branch of DetectHandler.
detectError(e) ==
    IF e = ErrRepoNotFound THEN Response(404, "text", "repository not found")
    ELSE IF e = ErrRateLimited
         THEN Response(429, "text", "github rate limit exceeded")
    ELSE Response(500, "text", "could not fetch tags")

RepoInfo(url, o, n, provider) ==
    [Url |-> url, Owner |-> o, Name |-> n, Provider |-> provider]

DetectResponse(repoInfo, ts) == [Repo |-> repoInfo, Tags |-> ts]

NoDetectResponse == DetectResponse(RepoInfo(<<>>, <<>>, <<>>, ""), NilSlice)

\* The clamp of limits.maxReleases, without its lower bound.
clampMaxReleases_NoFloor(n) ==
    LET m == IF n = 0 THEN 30 ELSE n
    IN  IF m > 60 THEN 60 ELSE m

\* The clamp with the default applied after the lower bound.
clampMaxReleases_FloorFirst(n) ==
    LET m == IF n < 1 THEN 1 ELSE n
    IN  IF m > 60 THEN 60 ELSE m

\* AnalyzeHandler's clamp of limits.maxReleases.
clampMaxReleases(n) ==
    LET m == IF n = 0 THEN 30 ELSE n
    IN  IF m < 1 THEN 1
        ELSE IF m > 60 THEN 60
        ELSE m

(***************************************************************************)
(* Requests.                                                               *)
(***************************************************************************)
\* An inbound request: /detect reads RepoUrl (its repo query parameter, ""
\* when missing); /api/analyze reads the method and the JSON body (JSONOK:
\* the body decodes into an AnalyzeRequest with the fields that follow).
Request(method, jsonOK, repoUrl, fromTag, toTag, mode, max) ==
    [Method |-> method, JSONOK |-> jsonOK, RepoUrl |-> repoUrl,
     FromTag |-> fromTag, ToTag |-> toTag, Mode |-> mode, MaxReleases |-> max]

GoodUrl == <<"https", ":", "/", "/", "github.com", "/", "octo", "/", "hello">>

DetectRequest(repoUrl) == Request("GET", TRUE, repoUrl, <<>>, <<>>, "", 0)

NoCalls == [list_tags |-> 0, compare_commits |-> 0, list_releases |-> 0,
            ollama |-> 0, writes |-> 0]

\* What an upstream call returns: the context's error when the deadline
\* has passed, otherwise success or one of the errors.
CallOutcomes(done, errors) == IF done THEN InterruptedErrors ELSE errors \cup {NoError}

upstream == <<handler, req, ghTags, ghCompare, ghReleases, modelReply>>

scanVars == <<commitTitles, changedFiles, notes, collecting, endTag, examined, data>>

(***************************************************************************)
(* GET /detect: DetectHandler and the page walk of GetRepoTags.            *)
(***************************************************************************)
\* The loop over one page of tags with only nil entries skipped.
RECURSIVE appendTagNames_KeepNameless(_, _)
appendTagNames_KeepNameless(acc, entries) ==
    IF entries = <<>> THEN acc
    ELSE LET t == Head(entries)
         IN  appendTagNames_KeepNameless(IF ~t.isNil THEN GoAppend(acc, t.Name) ELSE acc,
                                         Tail(entries))

\* The loop over one page of tags: nil entries and entries without a name
\* are skipped.
RECURSIVE appendTagNames(_, _)
appendTagNames(acc, entries) ==
    IF entries = <<>> THEN acc
    ELSE LET t == Head(entries)
         IN  appendTagNames(IF ~t.isNil /\ t.hasName THEN GoAppend(acc, t.Name) ELSE acc,
                            Tail(entries))

\* DetectHandler up to the first ListTags call: the missing-parameter check,
\* then GetRepoTags' call of ParseGitHubRepoURL.
DetectHandler ==
    /\ handler = "detect"
    /\ pc = "start"
    /\ LET parsed == ParseGitHubRepoURL(req.RepoUrl)
       IN  IF req.RepoUrl = <<>>
           THEN /\ response' = Response(400, "text", "missing repo parameter")
                /\ calls' = [calls EXCEPT !.writes = @ + 1]
                /\ pc' = "done"
                /\ UNCHANGED <<owner, repo, err>>
           ELSE IF parsed.err # NoError
           THEN /\ err' = parsed.err
                /\ response' = detectError(parsed.err)
                /\ calls' = [calls EXCEPT !.writes = @ + 1]
                /\ pc' = "done"
                /\ UNCHANGED <<owner, repo>>
           ELSE /\ owner' = parsed.owner
                /\ repo' = parsed.repo
                /\ pc' = "tags"
                /\ UNCHANGED <<err, response, calls>>
    /\ UNCHANGED <<upstream, scanVars, ctxDone, expiredAt, maxReleases, optPage,
                   tags, providerErr, prompt, analysis, detected>>

\* One ListTags call of GetRepoTags returns; on the last page DetectHandler
\* writes the DetectResponse, on an error its error branch answers.
GetRepoTags_ListTags ==
    /\ handler = "detect"
    /\ pc = "tags"
    /\ \E outcome \in CallOutcomes(ctxDone, ProviderErrors) :
         LET mappedErr == mapGitHubError(outcome)
             page == ListPage(ghTags, optPage)
             collected == appendTagNames(tags, page.entries)
         IN  /\ providerErr' = outcome
             /\ IF mappedErr # NoError
                THEN /\ tags' = NilSlice
                     /\ err' = mappedErr
                     /\ response' = detectError(mappedErr)
                     /\ calls' = [calls EXCEPT !.list_tags = @ + 1, !.writes = @ + 1]
                     /\ pc' = "done"
                     /\ UNCHANGED <<optPage, detected>>
                ELSE IF page.NextPage = 0
                THEN /\ tags' = collected
                     /\ detected' = DetectResponse(
                                        RepoInfo(req.RepoUrl, <<>>, <<>>, "github"),
                                        collected)
                     /\ response' = Response(200, "detect", "")
                     /\ calls' = [calls EXCEPT !.list_tags = @ + 1, !.writes = @ + 1]
                     /\ pc' = "done"
                     /\ UNCHANGED <<optPage, err>>
                ELSE /\ tags' = collected
                     /\ optPage' = page.NextPage
                     /\ calls' = [calls EXCEPT !.list_tags = @ + 1]
                     /\ UNCHANGED <<pc, err, response, detected>>
    /\ UNCHANGED <<upstream, scanVars, ctxDone, expiredAt, owner, repo,
                   maxReleases, prompt, analysis>>

(***************************************************************************)
(* POST /api/analyze: AnalyzeHandler.                                      *)
(***************************************************************************)
\* The validation without its check of toTag.
analyzeRejection_NoToTag(r) ==
    IF r.Method # "POST" THEN Response(405, "error", "method not allowed")
    ELSE IF ~r.JSONOK THEN Response(400, "error", "invalid JSON body")
    ELSE IF TrimSpace(r.RepoUrl) = <<>>
         THEN Response(400, "error", "repoUrl is required")
    ELSE IF TrimSpace(r.FromTag) = <<>>
         THEN Response(400, "error", "fromTag is required")
    ELSE IF r.Mode # "fast" /\ r.Mode # "deep"
         THEN Response(400, "error", "mode must be 'fast' or 'deep'")
    ELSE IF ParseGitHubRepoURL(TrimSpace(r.RepoUrl)).err # NoError
         THEN Response(400, "error", "invalid repoUrl")
    ELSE NoResponse

\* The first failing check of AnalyzeHandler's validation, "" when none
\* fails.
analyzeRejection(r) ==
    IF r.Method # "POST" THEN Response(405, "error", "method not allowed")
    ELSE IF ~r.JSONOK THEN Response(400, "error", "invalid JSON body")
    ELSE IF TrimSpace(r.RepoUrl) = <<>>
         THEN Response(400, "error", "repoUrl is required")
    ELSE IF TrimSpace(r.FromTag) = <<>>
         THEN Response(400, "error", "fromTag is required")
    ELSE IF TrimSpace(r.ToTag) = <<>>
         THEN Response(400, "error", "toTag is required")
    ELSE IF r.Mode # "fast" /\ r.Mode # "deep"
         THEN Response(400, "error", "mode must be 'fast' or 'deep'")
    ELSE IF ParseGitHubRepoURL(TrimSpace(r.RepoUrl)).err # NoError
         THEN Response(400, "error", "invalid repoUrl")
    ELSE NoResponse

\* AnalyzeHandler up to the CompareCommits call of fetchComparisonData.
AnalyzeHandler ==
    /\ handler = "analyze"
    /\ pc = "start"
    /\ LET rejection == analyzeRejection(req)
           parsed == ParseGitHubRepoURL(TrimSpace(req.RepoUrl))
       IN  IF rejection # NoResponse
           THEN /\ response' = rejection
                /\ calls' = [calls EXCEPT !.writes = @ + 1]
                /\ pc' = "done"
                /\ UNCHANGED <<owner, repo, maxReleases>>
           ELSE /\ maxReleases' = clampMaxReleases(req.MaxReleases)
                /\ owner' = parsed.owner
                /\ repo' = parsed.repo
                /\ pc' = "compare"
                /\ UNCHANGED <<response, calls>>
    /\ UNCHANGED <<upstream, scanVars, ctxDone, expiredAt, optPage, tags,
                   providerErr, err, prompt, analysis, detected>>

\* The CompareCommits call of fetchComparisonData returns; on success the
\* titles and files are collected and fetchReleaseNotes starts its first
\* ListReleases call.
fetchComparisonData_CompareCommits ==
    /\ handler = "analyze"
    /\ pc = "compare"
    /\ calls' = [calls EXCEPT !.compare_commits = @ + 1]
    /\ \E outcome \in CallOutcomes(ctxDone, ProviderErrors) :
         LET compareErr == mapGitHubError(outcome)
         IN  /\ providerErr' = outcome
             /\ IF compareErr # NoError
                THEN /\ err' = compareErr
                     /\ data' = abortedData(notes, commitTitles, changedFiles)
                     /\ pc' = "error"
                     /\ UNCHANGED <<commitTitles, changedFiles, notes, collecting,
                                    endTag, examined, optPage>>
                ELSE /\ commitTitles' = Slice(collectCommitTitles(ghCompare.Commits, req.Mode))
                     /\ changedFiles' = changedFilesFor(ghCompare, req.Mode)
                     /\ notes' = <<>>
                     /\ collecting' = FALSE
                     /\ endTag' = <<>>
                     /\ examined' = 0
                     /\ optPage' = 0
                     /\ pc' = "releases"
                     /\ UNCHANGED <<err, data>>
    /\ UNCHANGED <<upstream, ctxDone, expiredAt, owner, repo, maxReleases, tags,
                   prompt, analysis, detected, response>>

\* One ListReleases call of fetchReleaseNotes returns and its page is
\* scanned; when the scan returns, fetchComparisonData returns the data,
\* AnalyzeHandler builds the prompt and starts the model call.
fetchReleaseNotes_ListReleases ==
    /\ handler = "analyze"
    /\ pc = "releases"
    /\ calls' = [calls EXCEPT !.list_releases = @ + 1]
    /\ \E outcome \in CallOutcomes(ctxDone, ProviderErrors) :
         LET listErr == mapGitHubError(outcome)
             page == ListPage(ghReleases, optPage)
             st == scanPage(page.entries,
                            resumeScan(notes, collecting, endTag, examined),
                            req.FromTag, req.ToTag, maxReleases)
             result == comparisonData(returnedNotes(st.notes, maxReleases),
                                      commitTitles, changedFiles)
         IN  /\ providerErr' = outcome
             /\ IF listErr # NoError
                THEN /\ err' = listErr
                     /\ data' = abortedData(notes, commitTitles, changedFiles)
                     /\ pc' = "error"
                     /\ UNCHANGED <<notes, collecting, endTag, examined, optPage, prompt>>
                ELSE IF st.returned \/ page.NextPage = 0
                THEN /\ notes' = st.notes
                     /\ collecting' = st.collecting
                     /\ endTag' = st.endTag
                     /\ examined' = st.examined
                     /\ data' = result
                     /\ prompt' = buildAnalysisPrompt(
                                      analysisInputBundle(TrimSpace(req.RepoUrl),
                                                          req.FromTag, req.ToTag, result))
                     /\ pc' = "model"
                     /\ UNCHANGED <<err, optPage>>
                ELSE /\ notes' = st.notes
                     /\ collecting' = st.collecting
                     /\ endTag' = st.endTag
                     /\ examined' = st.examined
                     /\ optPage' = page.NextPage
                     /\ UNCHANGED <<err, data, prompt, pc>>
    /\ UNCHANGED <<upstream, ctxDone, expiredAt, owner, repo, maxReleases, tags,
                   commitTitles, changedFiles, analysis, detected, response>>

\* callOllama returns; on success the reply is validated and normalised and
\* the handler writes the analysis, or a 500 when the reply is invalid.
AnalyzeHandler_callOllama ==
    /\ handler = "analyze"
    /\ pc = "model"
    /\ \E outcome \in CallOutcomes(ctxDone, {OtherError}) :
         LET normalized == validateAndNormalizeResponse(modelReply)
         IN  IF outcome # NoError
             THEN /\ err' = outcome
                  /\ pc' = "error"
                  /\ calls' = [calls EXCEPT !.ollama = @ + 1]
                  /\ UNCHANGED <<analysis, response>>
             ELSE IF normalized.err # NoError
             THEN /\ response' = modelResponseInvalid
                  /\ calls' = [calls EXCEPT !.ollama = @ + 1, !.writes = @ + 1]
                  /\ pc' = "done"
                  /\ UNCHANGED <<analysis, err>>
             ELSE /\ analysis' = [normalized.resp EXCEPT !.Meta =
                                     MetaInfo(TrimSpace(req.RepoUrl), req.FromTag,
                                              req.ToTag, <<"now">>)]
                  /\ response' = Response(200, "analysis", "")
                  /\ calls' = [calls EXCEPT !.ollama = @ + 1, !.writes = @ + 1]
                  /\ pc' = "done"
                  /\ UNCHANGED err
    /\ UNCHANGED <<upstream, scanVars, ctxDone, expiredAt, owner, repo,
                   maxReleases, optPage, tags, providerErr, prompt, detected>>

\* A handler that starts the aggregation once more after a failed step.
AnalyzeHandler_handleAnalyzeError_Retry ==
    /\ handler = "analyze"
    /\ pc = "error"
    /\ IF calls.compare_commits < 2
       THEN /\ pc' = "compare"
            /\ err' = NoError
            /\ UNCHANGED <<response, calls>>
       ELSE /\ response' = handleAnalyzeError(err, ctxDone)
            /\ calls' = [calls EXCEPT !.writes = @ + 1]
            /\ pc' = "done"
            /\ UNCHANGED err
    /\ UNCHANGED <<upstream, scanVars, ctxDone, expiredAt, owner, repo,
                   maxReleases, optPage, tags, providerErr, prompt, analysis,
                   detected>>

\* AnalyzeHandler's call of handleAnalyzeError after a failed step.
AnalyzeHandler_handleAnalyzeError ==
    /\ handler = "analyze"
    /\ pc = "error"
    /\ response' = handleAnalyzeError(err, ctxDone)
    /\ calls' = [calls EXCEPT !.writes = @ + 1]
    /\ pc' = "done"
    /\ UNCHANGED <<upstream, scanVars, ctxDone, expiredAt, owner, repo,
                   maxReleases, optPage, tags, providerErr, err, prompt, analysis,
                   detected>>

\* The deadline of context.WithTimeout passes while the handler runs.
ctxDeadline ==
    /\ pc \notin {"start", "done"}
    /\ ~ctxDone
    /\ ctxDone' = TRUE
    /\ expiredAt' = pc
    /\ UNCHANGED <<upstream, scanVars, pc, owner, repo, maxReleases, optPage,
                   tags, providerErr, err, prompt, analysis, detected, response,
                   calls>>

Next ==
    \/ DetectHandler
    \/ GetRepoTags_ListTags
    \/ AnalyzeHandler
    \/ fetchComparisonData_CompareCommits
    \/ fetchReleaseNotes_ListReleases
    \/ AnalyzeHandler_callOllama
    \/ AnalyzeHandler_handleAnalyzeError
    \/ ctxDeadline

(***************************************************************************)
(* Inputs: the requests and the upstream data each specification draws.    *)
(***************************************************************************)
\* Repository URLs: optional surrounding white space, an optional scheme, a
\* host, and a path of up to MaxPathTokens tokens.
UrlSchemes == {<<>>, <<"https", ":", "/", "/">>, <<"http", ":", "/", "/">>}

UrlHosts == {<<"github.com">>, <<"GitHub.com">>, <<"github.mycorp.com">>,
             <<"gitlab.com">>}

UrlPaths == SeqsUpTo({"/", "octo", "hello", ".git"}, MaxPathTokens)

RichUrls ==
    {pad \o scheme \o host \o path \o pad :
        pad \in {<<>>, <<" ">>}, scheme \in UrlSchemes, host \in UrlHosts,
        path \in UrlPaths}
    \cup {<<" ">>}

BaseDetect ==
    {DetectRequest(GoodUrl), DetectRequest(<<>>),
     DetectRequest(<<"github.com", "/", "octo", "/", "hello">>)}

BaseTags ==
    {<<>>,
     <<TagEntry(FALSE, TRUE, <<"v1">>), TagEntry(FALSE, TRUE, <<"v2">>),
       TagEntry(FALSE, FALSE, <<>>)>>}

BaseAnalyze ==
    {Request("POST", TRUE, GoodUrl, <<"v1">>, <<"v2">>, mode, 10) :
        mode \in {"fast", "deep", "slow"}}

BaseCompare ==
    {CompareResult(
        <<Commit(FALSE, TRUE, SubSeq(Sha9, 1, 7), <<"feat: add API">>),
          Commit(FALSE, TRUE, Sha9, <<"fix: edge case">>)>>,
        <<File(FALSE, <<"pkg/api.go">>), File(FALSE, <<"README.md">>)>>)}

BaseReleases ==
    {<<Release(FALSE, <<"v2">>, 19), Release(FALSE, <<"v1">>, 19)>>}

\* The reply of the handler's happy-path test: score 80 under level "low".
HappyReply ==
    JReply("obj",
        JRisk("obj", JStr("str", "low"), JInt("int", 80), JStr("str", "medium"),
              JArr("arr", <<JStr("str", "breaking changes")>>)),
        JSummary("obj", JArr("arr", <<JStr("str", "Major update")>>),
                 JArr("arr", <<JGroup("obj", JStr("str", "Highlights"),
                                      JArr("arr", <<JStr("str", "Item")>>))>>)),
        JArr("arr", <<>>), JArr("arr", <<>>), JArr("arr", <<>>), JArr("arr", <<>>),
        JMeta("obj", JStr("str", <<>>), JStr("str", <<>>), JStr("str", <<>>),
              JStr("str", <<>>)))

BlankReply == [HappyReply EXCEPT !.top = "blank"]

BaseReplies == {HappyReply}

\* risk.score values around the clamp and the level buckets.
ScoreValues == {-1, 0, 24, 25, 59, 60, 85, 100, 101, 250}

ScoreOptions ==
    {JInt("int", n) : n \in ScoreValues}
    \cup {JInt("absent", 0), JInt("null", 0), JInt("bad", 0)}

LevelOptions ==
    {JStr("absent", ""), JStr("str", "low"), JStr("str", "high"), JStr("str", "bogus")}

ALink == JLink("obj", JStr("str", "notes"), JStr("str", "https://example.test"))

AbsentLink == JLink("null", JStr("absent", ""), JStr("absent", ""))

ReasonsOptions ==
    {JArr("absent", <<>>), JArr("null", <<>>), JArr("arr", <<>>),
     JArr("arr", <<JStr("str", "breaking changes"), JStr("null", "")>>)}

HighlightsOptions ==
    {JArr("absent", <<>>), JArr("null", <<>>),
     JArr("arr", <<JStr("str", "Major update")>>)}

GroupedOptions ==
    {JArr("absent", <<>>), JArr("null", <<>>), JArr("arr", <<>>),
     JArr("arr",
          <<JGroup("obj", JStr("str", "Highlights"),
                   JArr("arr", <<JStr("str", "Item")>>)),
            JGroup("obj", JStr("str", "T"), JArr("absent", <<>>)),
            JGroup("obj", JStr("absent", ""), JArr("null", <<>>)),
            JGroup("null", JStr("absent", ""), JArr("absent", <<>>)),
            JGroup("obj", JStr("str", "E"), JArr("arr", <<>>))>>)}

BreakersOptions ==
    {JArr("absent", <<>>), JArr("arr", <<>>),
     JArr("arr",
          <<JBreaker("obj", JStr("str", "API removed"), JStr("str", "bogus"),
                     JStr("str", "gone"), JArr("arr", <<ALink>>)),
            JBreaker("obj", JStr("str", "B"), JStr("absent", ""), JStr("null", ""),
                     JArr("absent", <<>>)),
            JBreaker("obj", JStr("str", "C"), JStr("str", "high"), JStr("str", "r"),
                     JArr("null", <<>>)),
            JBreaker("null", JStr("absent", ""), JStr("absent", ""),
                     JStr("absent", ""), JArr("absent", <<>>))>>)}

ChangesOptions ==
    {JArr("absent", <<>>), JArr("null", <<>>),
     JArr("arr",
          <<JChange("obj", JStr("str", "D"), JStr("str", "r"), JArr("absent", <<>>)),
            JChange("obj", JStr("str", "E"), JStr("str", "r"), JArr("arr", <<>>))>>)}

StepsOptions ==
    {JArr("absent", <<>>), JArr("null", <<>>),
     JArr("arr",
          <<JStep("obj", JStr("str", "bump"), JStr("str", "w"), JArr("null", <<>>)),
            JStep("obj", JStr("str", "test"), JStr("str", "w"),
                  JArr("arr", <<ALink, AbsentLink>>))>>)}

EvidenceOptions ==
    {JArr("absent", <<>>), JArr("null", <<>>),
     JArr("arr",
          <<JItem("obj", JStr("str", "notes"), JStr("str", "u"), JStr("str", "bogus")),
            JItem("null", JStr("absent", ""), JStr("absent", ""), JStr("absent", ""))>>)}

\* Replies that vary every array field, replies that vary score and level,
\* and replies that are not a JSON object of the response shape.
RichReplies ==
    {[HappyReply EXCEPT !.risk.reasons = r, !.summary.highlights = h,
                        !.summary.grouped = g, !.breakers = b,
                        !.behaviorChanges = c, !.upgradeSteps = u, !.evidence = e] :
        r \in ReasonsOptions, h \in HighlightsOptions, g \in GroupedOptions,
        b \in BreakersOptions, c \in ChangesOptions, u \in StepsOptions,
        e \in EvidenceOptions}
    \cup {[HappyReply EXCEPT !.risk.score = n, !.risk.level = l] :
             n \in ScoreOptions, l \in LevelOptions}
    \cup {[HappyReply EXCEPT !.top = t] : t \in {"blank", "garbage", "scalar", "null"}}
    \cup {[HappyReply EXCEPT !.risk.t = t, !.summary.t = t, !.meta.t = t] :
             t \in {"absent", "null", "bad"}}
    \cup {[HappyReply EXCEPT !.breakers = JArr("bad", <<>>)],
          [HappyReply EXCEPT !.summary.grouped =
              JArr("arr", <<JGroup("obj", JStr("str", "T"), JArr("bad", <<>>))>>)]}

\* from/to pairs and requested limits for the release-window scan.
ScanRequests ==
    {Request("POST", TRUE, GoodUrl, ft[1], ft[2], "fast", max) :
        ft \in {<<<<"v1">>, <<"v2">>>>, <<<<"v2">>, <<"v1">>>>, <<<<"v1">>, <<"v1">>>>},
        max \in {-1, 0, 2}}

CompareRequests ==
    {Request("POST", TRUE, GoodUrl, <<"v1">>, <<"v2">>, mode, 10) :
        mode \in {"fast", "deep"}}

RichCompare ==
    {CompareResult(c, f) :
        c \in SeqsUpTo(CommitEntries, MaxCommits), f \in SeqsUpTo(FileEntries, MaxFiles)}

\* The state when a request arrives: the request and the upstream data are
\* drawn from the given sets, the handler has not run.
InitWith(detectReqs, tagLists, analyzeReqs, compares, releaseLists, replies) ==
    /\ handler \in {"detect", "analyze"}
    /\ req \in (IF handler = "detect" THEN detectReqs ELSE analyzeReqs)
    /\ ghTags \in (IF handler = "detect" THEN tagLists ELSE {<<>>})
    /\ ghCompare \in (IF handler = "analyze" THEN compares
                      ELSE {CompareResult(<<>>, <<>>)})
    /\ ghReleases \in (IF handler = "analyze" THEN releaseLists ELSE {<<>>})
    /\ modelReply \in (IF handler = "analyze" THEN replies ELSE {BlankReply})
    /\ pc = "start"
    /\ ctxDone = FALSE
    /\ expiredAt = "no"
    /\ owner = <<>>
    /\ repo = <<>>
    /\ maxReleases = 0
    /\ optPage = 0
    /\ tags = NilSlice
    /\ commitTitles = NilSlice
    /\ changedFiles = NilSlice
    /\ notes = <<>>
    /\ collecting = FALSE
    /\ endTag = <<>>
    /\ examined = 0
    /\ data = NoData
    /\ providerErr = NoError
    /\ err = NoError
    /\ prompt = NoPrompt
    /\ analysis = ZeroResponse
    /\ detected = NoDetectResponse
    /\ response = NoResponse
    /\ calls = NoCalls

\* Requests of every kind against a small upstream.
Init ==
    InitWith(BaseDetect, BaseTags, BaseAnalyze, BaseCompare,
             BaseReleases \cup {<<>>,
                 <<Release(FALSE, <<"v3">>, 0), Release(FALSE, <<"v2">>, 5001),
                   Release(FALSE, <<"v1">>, 19)>>},
             {HappyReply, BlankReply})

Spec == Init /\ [][Next]_vars

\* /detect over generated repository URLs.
InitParse ==
    InitWith({DetectRequest(u) : u \in RichUrls}, BaseTags, BaseAnalyze,
             BaseCompare, BaseReleases, BaseReplies)

SpecParse == InitParse /\ [][Next]_vars

\* /detect over generated tag listings.
InitTags ==
    InitWith(BaseDetect, SeqsUpTo(TagEntries, MaxTagsListed), BaseAnalyze,
             BaseCompare, BaseReleases, BaseReplies)

SpecTags == InitTags /\ [][Next]_vars

\* /api/analyze over generated release listings, tag pairs and limits.
InitScan ==
    InitWith(BaseDetect, BaseTags, ScanRequests, BaseCompare,
             SeqsUpTo(ReleaseEntries, MaxReleasesListed), BaseReplies)

SpecScan == InitScan /\ [][Next]_vars

\* /api/analyze over generated compare results, in both modes.
InitCompare ==
    InitWith(BaseDetect, BaseTags, CompareRequests, RichCompare, BaseReleases,
             BaseReplies)

SpecCompare == InitCompare /\ [][Next]_vars

\* /api/analyze over generated model replies.
InitNormalize ==
    InitWith(BaseDetect, BaseTags, CompareRequests, BaseCompare, BaseReleases,
             RichReplies)

SpecNormalize == InitNormalize /\ [][Next]_vars

\* Analyze requests that fail one of the handler's checks, or none.
ValidationRequests ==
    {Request(method, jsonOK, repoUrl, fromTag, toTag, mode, 0) :
        method \in {"POST", "GET"}, jsonOK \in BOOLEAN,
        repoUrl \in {GoodUrl, <<" ">> \o GoodUrl \o <<" ">>, <<>>, <<" ">>,
                     <<"github.com", "/", "octo", "/", "hello">>,
                     <<"https", ":", "/", "/", "gitlab.com", "/", "octo", "/", "hello">>},
        fromTag \in {<<"v1">>, <<>>, <<" ">>},
        toTag \in {<<"v2">>, <<>>, <<"\n", " ">>},
        mode \in {"fast", "deep", "slow", ""}}

\* limits.maxReleases as requested: 0 also stands for an absent value.
LimitValues == {-5, -1, 0, 1, 2, 30, 59, 60, 61, 100}

LimitRequests ==
    {Request("POST", TRUE, GoodUrl, <<"v1">>, <<"v2">>, "fast", max) :
        max \in LimitValues}

\* /api/analyze over requests that pass or fail validation and over
\* requested limits.
InitRequests ==
    InitWith(BaseDetect, BaseTags, ValidationRequests \cup LimitRequests,
             BaseCompare, BaseReleases, {HappyReply, BlankReply})

SpecRequests == InitRequests /\ [][Next]_vars

(***************************************************************************)
(* Properties of the release-notes window (fetchReleaseNotes).             *)
(***************************************************************************)
\* The releases of a listing that carry a name once trimmed.
NamedReleases(listing) ==
    SelectSeq(listing, LAMBDA r : ~r.isNil /\ TrimSpace(r.TagName) # <<>>)

TagAt(named, i) == TrimSpace(named[i].TagName)

Positions(named, tag) == {i \in 1..Len(named) : TagAt(named, i) = tag}

Least(S) == CHOOSE i \in S : \A j \in S : i <= j

BothTagsListed(listing, fromTag, toTag) ==
    /\ Positions(NamedReleases(listing), fromTag) # {}
    /\ Positions(NamedReleases(listing), toTag) # {}

\* The run of named releases from the first release tagged fromTag or toTag
\* to the next release carrying the other of the two tags, as notes.
ExpectedWindow(listing, fromTag, toTag) ==
    LET named == NamedReleases(listing)
        start == Least(Positions(named, fromTag) \cup Positions(named, toTag))
        other == IF TagAt(named, start) = fromTag THEN toTag ELSE fromTag
        stop  == Least({j \in Positions(named, other) : j >= start})
    IN  [k \in 1..(stop - start + 1) |->
            [Tag  |-> TagAt(named, start + k - 1),
             Body |-> Min(named[start + k - 1].Body, MaxBodyLen)]]

FirstN(s, n) == SubSeq(s, 1, Min(n, Len(s)))

\* fetchComparisonData has returned its data to the handler.
DataReturned == handler = "analyze" /\ ~data.ReleaseNotes.isNil

\* C1: when the release listing holds both fromTag and toTag, the notes
\* returned are the contiguous run of named releases from whichever of the
\* two tags comes first in provider order up to and including the other, in
\* provider order, cut to the first maxReleases of them.
C1_WindowIsDirectionIndependent ==
    (DataReturned /\ BothTagsListed(ghReleases, req.FromTag, req.ToTag))
        => data.ReleaseNotes.elems =
               FirstN(ExpectedWindow(ghReleases, req.FromTag, req.ToTag), maxReleases)

\* A listing in which toTag comes first: the scan started at toTag, ended at
\* fromTag and returned both notes in the order met.
C1_Witness ==
    /\ DataReturned
    /\ req.FromTag = <<"v1">> /\ req.ToTag = <<"v2">>
    /\ Len(ghReleases) = 2
    /\ ghReleases[1].TagName = <<"v2">> /\ ghReleases[2].TagName = <<" ", "v1">>
    /\ endTag = req.FromTag
    /\ Len(data.ReleaseNotes.elems) = 2
    /\ data.ReleaseNotes.elems[1].Tag = <<"v2">>
    /\ data.ReleaseNotes.elems[2].Tag = <<"v1">>

\* C2: the handler hands the aggregator a maxReleases in 1..60, and the
\* release notes the aggregator returns are never more than maxReleases.
C2_NotesBoundedByMaxReleases ==
    /\ (handler = "analyze" /\ pc \notin {"start", "done"}) => maxReleases \in 1..60
    /\ DataReturned => Len(data.ReleaseNotes.elems) <= maxReleases

\* The scan stopped at the limit, before its end boundary and before the end
\* of the listing.
C2_Witness ==
    /\ DataReturned
    /\ maxReleases = 2
    /\ Len(data.ReleaseNotes.elems) = 2
    /\ data.ReleaseNotes.elems[2].Tag # endTag
    /\ examined < Len(ghReleases)

(***************************************************************************)
(* Properties of validateAndNormalizeResponse.                             *)
(***************************************************************************)
\* The handler accepted the model reply and wrote the analysis.
AnalysisWritten == handler = "analyze" /\ response.kind = "analysis"

\* The score the model supplied: 0 when risk or risk.score is missing or null.
SuppliedScore ==
    IF modelReply.top = "obj" /\ modelReply.risk.t = "obj"
       /\ modelReply.risk.score.t = "int"
    THEN modelReply.risk.score.n
    ELSE 0

ScoreBucket(score) ==
    CASE score \in 0..24   -> "low"
      [] score \in 25..59  -> "medium"
      [] score \in 60..100 -> "high"

\* C3: after a successful normalisation risk.score is the model's score
\* clamped into 0..100 and risk.level is the bucket of that score (low up to
\* 24, medium 25..59, high from 60), whatever level the model supplied.
C3_ScoreClampedLevelDerived ==
    AnalysisWritten =>
        /\ analysis.Risk.Score \in 0..100
        /\ analysis.Risk.Score =
               (IF SuppliedScore < 0 THEN 0
                ELSE IF SuppliedScore > 100 THEN 100
                ELSE SuppliedScore)
        /\ analysis.Risk.Level = ScoreBucket(analysis.Risk.Score)

\* The model said score 85 under level "low"; the analysis says "high".
C3_Witness ==
    /\ AnalysisWritten
    /\ modelReply.risk.score = JInt("int", 85)
    /\ modelReply.risk.level = JStr("str", "low")
    /\ analysis.Risk.Score = 85
    /\ analysis.Risk.Level = "high"

EachHasEvidence(slice) ==
    /\ ~slice.isNil
    /\ \A i \in 1..Len(slice.elems) : ~slice.elems[i].Evidence.isNil

\* C4: after a successful normalisation no array field of the response is
\* null: risk.reasons, summary.highlights, summary.grouped and each group's
\* items, breakers, behaviorChanges, upgradeSteps and the evidence of each of
\* their entries, and the top-level evidence; one the model left out or set
\* to null is an empty sequence.
C4_ArraysNeverNull ==
    AnalysisWritten =>
        /\ ~analysis.Risk.Reasons.isNil
        /\ ~analysis.Summary.Highlights.isNil
        /\ ~analysis.Summary.Grouped.isNil
        /\ \A i \in 1..Len(analysis.Summary.Grouped.elems) :
              ~analysis.Summary.Grouped.elems[i].Items.isNil
        /\ EachHasEvidence(analysis.Breakers)
        /\ EachHasEvidence(analysis.BehaviorChanges)
        /\ EachHasEvidence(analysis.UpgradeSteps)
        /\ ~analysis.Evidence.isNil
        /\ modelReply.risk.reasons.t \in {"absent", "null"}
              => analysis.Risk.Reasons = Slice(<<>>)
        /\ modelReply.summary.highlights.t \in {"absent", "null"}
              => analysis.Summary.Highlights = Slice(<<>>)
        /\ modelReply.summary.grouped.t \in {"absent", "null"}
              => analysis.Summary.Grouped = Slice(<<>>)
        /\ modelReply.breakers.t \in {"absent", "null"}
              => analysis.Breakers = Slice(<<>>)
        /\ modelReply.behaviorChanges.t \in {"absent", "null"}
              => analysis.BehaviorChanges = Slice(<<>>)
        /\ modelReply.upgradeSteps.t \in {"absent", "null"}
              => analysis.UpgradeSteps = Slice(<<>>)
        /\ modelReply.evidence.t \in {"absent", "null"}
              => analysis.Evidence = Slice(<<>>)

\* A reply without breakers, with a null evidence, and with groups and steps
\* whose inner arrays are missing or null.
C4_Witness ==
    /\ AnalysisWritten
    /\ modelReply.breakers.t = "absent"
    /\ modelReply.evidence.t = "null"
    /\ analysis.Breakers = Slice(<<>>)
    /\ Len(modelReply.summary.grouped.a) = 5
    /\ modelReply.summary.grouped.a[2].items.t = "absent"
    /\ analysis.Summary.Grouped.elems[2].Items = Slice(<<>>)
    /\ Len(modelReply.upgradeSteps.a) = 2
    /\ modelReply.upgradeSteps.a[1].evidence.t = "null"
    /\ analysis.UpgradeSteps.elems[1].Evidence = Slice(<<>>)

\* C5: normalisation is idempotent: the normalised document, and the
\* analysis the handler writes, serialised and normalised again, are
\* accepted and come out unchanged.
C5_NormalizationIdempotent ==
    AnalysisWritten =>
        LET once == validateAndNormalizeResponse(modelReply)
        IN  /\ once.err = NoError
            /\ validateAndNormalizeResponse(MarshalResponse(once.resp)) = once
            /\ validateAndNormalizeResponse(MarshalResponse(analysis))
                   = Normalized(NoError, analysis)

\* A reply the first normalisation changed: score 250 clamped, level
\* replaced, a missing array filled in.
C5_Witness ==
    /\ AnalysisWritten
    /\ modelReply.risk.score = JInt("int", 250)
    /\ modelReply.risk.level = JStr("str", "low")
    /\ analysis.Risk.Score = 100
    /\ analysis.Risk.Level = "high"
    /\ MarshalResponse(analysis) # modelReply
    /\ validateAndNormalizeResponse(MarshalResponse(analysis)).resp = analysis

(***************************************************************************)
(* Properties of the prompt bundle.                                        *)
(***************************************************************************)
\* The handler has built the prompt.
PromptBuilt == handler = "analyze" /\ DOMAIN prompt # {}

\* The file names of the compare result: those of non-nil entries with a name.
NamedFiles(files) == SelectSeq(files, LAMBDA f : ~f.isNil /\ f.Filename # <<>>)

\* C6: in deep mode the bundle in the prompt always has a changedFiles field,
\* an empty list when the compare result has no named files; in fast mode
\* the bundle never has the field.
C6_DeepBundleAlwaysHasChangedFiles ==
    PromptBuilt =>
        /\ req.Mode = "deep" =>
              /\ "changedFiles" \in DOMAIN prompt
              /\ prompt["changedFiles"].t = "arr"
              /\ NamedFiles(ghCompare.Files) = <<>> => prompt["changedFiles"].a = <<>>
        /\ req.Mode = "fast" => "changedFiles" \notin DOMAIN prompt

(***************************************************************************)
(* Properties of ParseGitHubRepoURL.                                       *)
(***************************************************************************)
\* What follows "https://github.com/" (host in any case) in a trimmed input,
\* or <<"/">> when the input does not start that way.
AfterHost(s) ==
    LET t == TrimSpace(s)
    IN  IF /\ Len(t) >= 6
           /\ SubSeq(t, 1, 4) = <<"https", ":", "/", "/">>
           /\ ToLower(t[5]) = "github.com"
           /\ t[6] = "/"
        THEN SubSeq(t, 7, Len(t))
        ELSE <<"/">>

\* The path with one optional trailing slash, then one optional .git suffix,
\* taken off.
BarePath(s) ==
    LET path == AfterHost(s)
        unslashed == IF path # <<>> /\ path[Len(path)] = "/"
                     THEN SubSeq(path, 1, Len(path) - 1)
                     ELSE path
    IN  IF unslashed # <<>> /\ unslashed[Len(unslashed)] = ".git"
        THEN SubSeq(unslashed, 1, Len(unslashed) - 1)
        ELSE unslashed

\* The input has the form https://github.com/<owner>/<name>: exactly two
\* path segments, neither of them empty.
ExactShape(s) ==
    LET segments == SplitOn(BarePath(s), "/")
    IN  /\ Len(segments) = 2
        /\ segments[1] # <<>>
        /\ segments[2] # <<>>

\* GetRepoTags went past its call of ParseGitHubRepoURL.
ParseAccepted == pc = "tags" \/ calls.list_tags > 0

\* C7: ParseGitHubRepoURL returns (owner, name) for the inputs of the form
\* https://github.com/<owner>/<name> and ErrInvalidRepoURL for every other
\* input, an input with an empty path segment among them.
C7_ParseAcceptsExactShapeOnly ==
    (handler = "detect" /\ pc # "start" /\ req.RepoUrl # <<>>) =>
        IF ExactShape(req.RepoUrl)
        THEN /\ ParseAccepted
             /\ owner = SplitOn(BarePath(req.RepoUrl), "/")[1]
             /\ repo = SplitOn(BarePath(req.RepoUrl), "/")[2]
        ELSE /\ ~ParseAccepted
             /\ err = ErrInvalidRepoURL

(***************************************************************************)
(* Properties of the error paths.                                          *)
(***************************************************************************)
\* The last provider call failed with this HTTP status.
ProviderFailedWith(status) == providerErr = ErrorResponse(status)

\* The request is answered.
Answered == pc = "done"

BlockingSteps == {"compare", "releases", "model"}

\* C9: when the deadline of an analyze request expires during the compare
\* call, a release page fetch or the model call, that step fails (the handler
\* never gets to a later step), the request ends with HTTP 504 and a JSON
\* error body, and no analysis is written.
C9_DeadlineEndsRequestTimedOut ==
    (handler = "analyze" /\ expiredAt \in BlockingSteps) =>
        /\ pc \in {expiredAt, "error", "done"}
        /\ pc \in {"error", "done"} => err \in InterruptedErrors
        /\ Answered =>
              /\ response = Response(504, "error", "request timed out")
              /\ analysis = ZeroResponse
              /\ calls.writes = 1

\* The deadline expired during the model call, after the release notes were
\* gathered, and the call returned an error that is not the context's.
C9_Witness ==
    /\ handler = "analyze"
    /\ Answered
    /\ expiredAt = "model"
    /\ ~data.ReleaseNotes.isNil
    /\ err = OtherError
    /\ response.status = 504
    /\ analysis = ZeroResponse

(***************************************************************************)
(* Properties of GetRepoTags.                                              *)
(***************************************************************************)
\* The names of the listing's named tags, in provider order.
ExpectedTagNames(listing) ==
    LET named == SelectSeq(listing, LAMBDA t : ~t.isNil /\ t.hasName)
    IN  [i \in 1..Len(named) |-> named[i].Name]

\* The pages the provider cuts a listing into (one empty page for none).
PagesOf(listing) ==
    IF listing = <<>> THEN 1 ELSE (Len(listing) + PerPage - 1) \div PerPage

\* C10: GetRepoTags returns the tag names of all pages, in page order and in
\* provider order within a page, fetching pages until the provider reports
\* no next page; entries without a name are skipped; a repository without
\* tags gives an empty sequence and no error.
C10_TagsConcatenateAllPages ==
    (handler = "detect" /\ response.kind = "detect") =>
        /\ tags.elems = ExpectedTagNames(ghTags)
        /\ detected.Tags = tags
        /\ err = NoError
        /\ calls.list_tags = PagesOf(ghTags)
        /\ ghTags = <<>> => Len(tags.elems) = 0

\* Three entries over two pages, one of them without a name.
C10_Witness ==
    /\ handler = "detect"
    /\ response.kind = "detect"
    /\ Len(ghTags) = 3
    /\ calls.list_tags = 2
    /\ ~ghTags[2].isNil /\ ~ghTags[2].hasName
    /\ tags.elems = <<ghTags[1].Name, ghTags[3].Name>>
    /\ ghTags[1].Name # ghTags[3].Name

(***************************************************************************)
(* Properties of the handling of model replies.                            *)
(***************************************************************************)
\* callOllama returned a reply (no error) and the handler has dealt with it.
ReplyHandled ==
    handler = "analyze" /\ pc = "done" /\ calls.ollama = 1 /\ err = NoError

\* The reply holds, where the response shape wants a string, an integer, an
\* array or an object, a JSON value of another type.
WrongTypeInReply ==
    /\ modelReply.top = "obj"
    /\ \/ modelReply.risk.t = "bad"
       \/ modelReply.summary.t = "bad"
       \/ modelReply.meta.t = "bad"
       \/ \E f \in {"breakers", "behaviorChanges", "upgradeSteps", "evidence"} :
             modelReply[f].t = "bad"
       \/ /\ modelReply.risk.t = "obj"
          /\ \/ modelReply.risk.score.t = "bad"
             \/ modelReply.risk.level.t = "bad"
             \/ modelReply.risk.reasons.t = "bad"
       \/ /\ modelReply.summary.t = "obj"
          /\ modelReply.summary.grouped.t = "arr"
          /\ \E i \in 1..Len(modelReply.summary.grouped.a) :
                /\ modelReply.summary.grouped.a[i].t = "obj"
                /\ modelReply.summary.grouped.a[i].items.t = "bad"

\* The reply is empty after trimming, is not JSON, or is JSON of another
\* shape than the response's.
InvalidReply ==
    modelReply.top \in {"blank", "garbage", "scalar"} \/ WrongTypeInReply

C12_DetectRejectsInvalidUrlWith400 ==
    (/\ handler = "detect"
     /\ pc # "start"
     /\ (req.RepoUrl = <<>> \/ ParseGitHubRepoURL(req.RepoUrl).err # NoError))
        => /\ Answered
           /\ response.status = 400
           /\ calls.list_tags = 0

\* C13: on success DetectHandler answers 200 with repo.url the requested
\* URL, repo.owner and repo.name the owner and name resolved from it,
\* repo.provider "github", and tags the sequence the tag lister returned.
C13_DetectSuccessBody ==
    (handler = "detect" /\ response.kind = "detect") =>
        /\ response.status = 200
        /\ detected.Repo.Url = req.RepoUrl
        /\ detected.Repo.Owner = owner
        /\ detected.Repo.Name = repo
        /\ detected.Repo.Owner = ParseGitHubRepoURL(req.RepoUrl).owner
        /\ detected.Repo.Name = ParseGitHubRepoURL(req.RepoUrl).repo
        /\ detected.Repo.Provider = "github"
        /\ detected.Tags = tags

(***************************************************************************)
(* Properties of the error taxonomy on the analyze path.                   *)
(***************************************************************************)
ErrorKinds ==
    {"InvalidRepoURL", "RepoNotFound", "RateLimited", "TimedOut",
     "ModelResponseInvalid", "Internal"}

\* The HTTP status AnalyzeHandler answers an error of each kind with.
StatusOfKind(kind) ==
    CASE kind = "InvalidRepoURL" ->
             analyzeRejection(Request("POST", TRUE,
                                      <<"github.com", "/", "octo", "/", "hello">>,
                                      <<"v1">>, <<"v2">>, "fast", 0)).status
      [] kind = "RepoNotFound" -> handleAnalyzeError(ErrRepoNotFound, FALSE).status
      [] kind = "RateLimited" -> handleAnalyzeError(ErrRateLimited, FALSE).status
      [] kind = "TimedOut" -> handleAnalyzeError(DeadlineExceeded, TRUE).status
      [] kind = "ModelResponseInvalid" -> modelResponseInvalid.status
      [] kind = "Internal" -> handleAnalyzeError(OtherError, FALSE).status

\* The kind of error an answered analyze request ended with, from what
\* happened to it: "none" for a success and for the rejections of a request
\* that are not about the repository URL.
OutcomeKind ==
    IF calls.compare_commits = 0
    THEN IF /\ req.Method = "POST" /\ req.JSONOK
            /\ TrimSpace(req.RepoUrl) # <<>>
            /\ TrimSpace(req.FromTag) # <<>>
            /\ TrimSpace(req.ToTag) # <<>>
            /\ req.Mode \in {"fast", "deep"}
         THEN "InvalidRepoURL"
         ELSE "none"
    ELSE IF response.kind = "analysis" THEN "none"
    ELSE IF err = NoError THEN "ModelResponseInvalid"
    ELSE IF ctxDone \/ err = DeadlineExceeded THEN "TimedOut"
    ELSE IF err = ErrRepoNotFound THEN "RepoNotFound"
    ELSE IF err = ErrRateLimited THEN "RateLimited"
    ELSE "Internal"

\* C14: the error kinds map to pairwise distinct HTTP status codes in
\* AnalyzeHandler's responses: the status a request of one kind is answered
\* with is the status of that kind and of no other kind.
C14_KindsHaveDistinctStatus ==
    (handler = "analyze" /\ Answered /\ OutcomeKind \in ErrorKinds) =>
        /\ response.status = StatusOfKind(OutcomeKind)
        /\ \A other \in ErrorKinds \ {OutcomeKind} :
              response.status # StatusOfKind(other)

(***************************************************************************)
(* Properties of AnalyzeHandler's request validation.                      *)
(***************************************************************************)
\* The handler accepted the request and went on to the aggregation.
RequestAccepted ==
    handler = "analyze" /\ (pc \notin {"start", "done"} \/ calls.compare_commits > 0)

\* C15: the maxReleases AnalyzeHandler hands the aggregator lies in 1..60: a
\* requested value in 1..60 is passed as it is, one above 60 as 60, a
\* negative one as 1, and an absent or zero one as the default 30.
C15_MaxReleasesClamped ==
    RequestAccepted =>
        /\ maxReleases \in 1..60
        /\ req.MaxReleases \in 1..60 => maxReleases = req.MaxReleases
        /\ req.MaxReleases > 60 => maxReleases = 60
        /\ req.MaxReleases < 0 => maxReleases = 1
        /\ req.MaxReleases = 0 => maxReleases = 30

\* A request without a limit got the default and the compare call was made.
C15_Witness ==
    /\ RequestAccepted
    /\ req.MaxReleases = 0
    /\ maxReleases = 30
    /\ calls.compare_commits = 1

Blank(s) == \A i \in 1..Len(s) : s[i] \in {" ", "\n"}

\* The request is one the validation rules turn down.
BadAnalyzeRequest ==
    \/ ~req.JSONOK
    \/ Blank(req.RepoUrl)
    \/ Blank(req.FromTag)
    \/ Blank(req.ToTag)
    \/ req.Mode \notin {"fast", "deep"}
    \/ ParseGitHubRepoURL(req.RepoUrl).err # NoError

\* C16: AnalyzeHandler answers 400 with a JSON body carrying a non-empty
\* error message, and makes no provider call and no model call, whenever the
\* body is not valid JSON, repoUrl, fromTag or toTag is empty after
\* trimming, mode is neither fast nor deep, or repoUrl does not resolve.
C16_BadRequestAnswered400 ==
    (handler = "analyze" /\ pc # "start" /\ req.Method = "POST" /\ BadAnalyzeRequest)
        => /\ Answered
           /\ response.status = 400
           /\ response.kind = "error"
           /\ response.msg # ""
           /\ calls = [NoCalls EXCEPT !.writes = 1]

\* A request whose only fault is a toTag of white space.
C16_Witness ==
    /\ handler = "analyze"
    /\ Answered
    /\ req.Method = "POST" /\ req.JSONOK
    /\ req.RepoUrl = GoodUrl /\ req.FromTag = <<"v1">> /\ req.Mode = "deep"
    /\ req.ToTag = <<"\n", " ">>
    /\ response = Response(400, "error", "toTag is required")
    /\ calls.compare_commits = 0

\* Listings long enough to span three pages, over three named releases, for
\* requests between v1 and v2 in both directions with the default limit and
\* with a limit of two.
PagedEntries ==
    {Release(FALSE, <<"v1">>, 19),
     Release(FALSE, <<"v2">>, 5000),
     Release(FALSE, <<"v3">>, 0)}

PagedRequests ==
    {Request("POST", TRUE, GoodUrl, ft[1], ft[2], "fast", max) :
        ft \in {<<<<"v1">>, <<"v2">>>>, <<<<"v2">>, <<"v1">>>>},
        max \in {0, 2}}

InitPages ==
    InitWith(BaseDetect, BaseTags, PagedRequests, BaseCompare,
             SeqsUpTo(PagedEntries, MaxPagedReleases), BaseReplies)

SpecPages == InitPages /\ [][Next]_vars

(***************************************************************************)
(* Properties of the scan's stopping and of its walk over the pages.       *)
(***************************************************************************)
\* Positions in the listing of the releases that carry a name once trimmed.
NamedIdx(listing) ==
    {i \in 1..Len(listing) :
        ~listing[i].isNil /\ TrimSpace(listing[i].TagName) # <<>>}

RawTag(listing, i) == TrimSpace(listing[i].TagName)

BoundaryIdx(listing, fromTag, toTag) ==
    {i \in NamedIdx(listing) : RawTag(listing, i) \in {fromTag, toTag}}

\* Named releases from position first to position last.
Between(listing, first, last) == {k \in NamedIdx(listing) : first <= k /\ k <= last}

\* Positions at which the scan has to return: the end boundary, or the
\* release that brings the notes to max.
StopIdx(listing, fromTag, toTag, max) ==
    LET start == Least(BoundaryIdx(listing, fromTag, toTag))
        other == IF RawTag(listing, start) = fromTag THEN toTag ELSE fromTag
    IN  {i \in NamedIdx(listing) :
            /\ i >= start
            /\ \/ RawTag(listing, i) = other
               \/ Cardinality(Between(listing, start, i)) >= max}

HasStop(listing, fromTag, toTag, max) ==
    /\ BoundaryIdx(listing, fromTag, toTag) # {}
    /\ StopIdx(listing, fromTag, toTag, max) # {}

PageOf(i) == (i + PerPage - 1) \div PerPage

\* C17: once the scan has appended the end-boundary release, or the notes
\* have reached maxReleases, fetchReleaseNotes returns at once: no later
\* entry is examined or appended and no further page is requested.
C17_ScanStopsAtFirstStop ==
    (DataReturned /\ HasStop(ghReleases, req.FromTag, req.ToTag, maxReleases)) =>
        LET start == Least(BoundaryIdx(ghReleases, req.FromTag, req.ToTag))
            stop == Least(StopIdx(ghReleases, req.FromTag, req.ToTag, maxReleases))
        IN  /\ examined = stop
            /\ calls.list_releases = PageOf(stop)
            /\ Len(notes) = Cardinality(Between(ghReleases, start, stop))
            /\ notes[Len(notes)].Tag = RawTag(ghReleases, stop)

\* The scan returned at the first entry of a three-entry listing: the rest
\* of the page was not examined and the second page was not requested.
C17_Witness ==
    /\ DataReturned
    /\ Len(ghReleases) = 3
    /\ NamedIdx(ghReleases) = {1, 2, 3}
    /\ maxReleases = 1
    /\ examined = 1
    /\ calls.list_releases = 1
    /\ Len(notes) = 1

\* C18: at every return of fetchReleaseNotes the collected notes already
\* number at most maxReleases, so the final clampReleaseNotes removes
\* nothing: the stop check never admits one entry too many, also when the
\* limit is reached on the last entry of a page or the first of the next.
C18_ClampNeverCuts ==
    DataReturned =>
        /\ maxReleases >= 1
        /\ Len(notes) <= maxReleases
        /\ clampReleaseNotes(notes, maxReleases) = notes
        /\ data.ReleaseNotes.elems = notes

\* The limit of two was reached on the first entry of the second page.
C18_Witness ==
    /\ DataReturned
    /\ maxReleases = 2
    /\ Len(notes) = 2
    /\ examined = PerPage + 1
    /\ calls.list_releases = 2
    /\ notes[2].Tag # endTag

\* No release of the listing is tagged fromTag or toTag.
NoBoundaryListed == BoundaryIdx(ghReleases, req.FromTag, req.ToTag) = {}

\* C20: when no release is tagged fromTag or toTag, fetchReleaseNotes
\* fetches every page, and no page beyond the last, then returns an empty
\* non-nil sequence without error, and the aggregation succeeds with empty
\* releaseNotes.
C20_NoBoundaryGivesEmptyNotes ==
    /\ handler = "analyze" => calls.list_releases <= PagesOf(ghReleases)
    /\ (handler = "analyze" /\ pc = "model" /\ NoBoundaryListed) =>
          /\ calls.list_releases = PagesOf(ghReleases)
          /\ examined = Len(ghReleases)
          /\ data.ReleaseNotes = Slice(<<>>)
          /\ err = NoError
          /\ prompt["releaseNotes"] = [t |-> "arr", a |-> <<>>]

\* Three named releases over two pages, none of them a boundary.
C20_Witness ==
    /\ handler = "analyze"
    /\ pc = "model"
    /\ NoBoundaryListed
    /\ NamedIdx(ghReleases) = {1, 2, 3}
    /\ calls.list_releases = 2
    /\ data.ReleaseNotes = Slice(<<>>)

\* The k-th smallest position of a set of positions.
Nth(S, k) == CHOOSE i \in S : Cardinality({j \in S : j <= i}) = k

\* The trimmed tags of the named releases from position first to last.
TagsBetween(listing, first, last) ==
    LET B == Between(listing, first, last)
    IN  [k \in 1..Cardinality(B) |-> RawTag(listing, Nth(B, k))]

NoteTags(ns) == [k \in 1..Len(ns) |-> ns[k].Tag]

IsPrefix(s, t) == Len(s) <= Len(t) /\ SubSeq(t, 1, Len(s)) = s

\* The scan's state over the pages fetched so far, against the raw listing:
\* nothing collected before the first boundary, and from it on every named
\* release up to the first stop position, with the end boundary derived at
\* the start.
ScanFollowsListing ==
    (handler = "analyze" /\ pc \in {"releases", "model"} /\ err = NoError) =>
        LET B == BoundaryIdx(ghReleases, req.FromTag, req.ToTag)
            start == Least(B)
            S == StopIdx(ghReleases, req.FromTag, req.ToTag, maxReleases)
            last == IF S # {} /\ Least(S) <= examined THEN Least(S) ELSE examined
        IN  IF B = {} \/ examined < Least(B)
            THEN ~collecting /\ notes = <<>>
            ELSE /\ collecting
                 /\ endTag = (IF RawTag(ghReleases, start) = req.FromTag
                              THEN req.ToTag ELSE req.FromTag)
                 /\ NoteTags(notes) = TagsBetween(ghReleases, start, last)

\* A page fetch that succeeded: it is followed by another, or by the return.
PageStep ==
    (/\ handler = "analyze"
     /\ calls'.list_releases # calls.list_releases
     /\ pc' \in {"releases", "model"}) =>
        /\ pc = "releases"
        /\ calls'.list_releases = calls.list_releases + 1
        /\ calls'.list_releases = (IF optPage = 0 THEN 1 ELSE optPage)
        /\ pc' = "releases" =>
              /\ optPage' = ListPage(ghReleases, optPage).NextPage
              /\ optPage' = calls'.list_releases + 1
        /\ collecting => (collecting' /\ endTag' = endTag)
        /\ IsPrefix(notes, notes')
        /\ examined' >= examined

\* C19: the seeking/collecting state, the derived end boundary and the
\* collected notes persist across page fetches: pages are requested one at
\* a time in the provider's next-page order, each at most once; a start
\* boundary that first occurs on a later page starts collection there, and
\* the end boundary is recognised on the same page or on any later one.
C19_ScanStatePersistsAcrossPages ==
    []ScanFollowsListing /\ [][PageStep]_vars

\* Collection started on page 2 and ended at the end boundary on page 3.
C19_Witness ==
    /\ DataReturned
    /\ PerPage = 2
    /\ HasStop(ghReleases, req.FromTag, req.ToTag, maxReleases)
    /\ Least(BoundaryIdx(ghReleases, req.FromTag, req.ToTag)) = 3
    /\ Least(StopIdx(ghReleases, req.FromTag, req.ToTag, maxReleases)) = 5
    /\ calls.list_releases = 3
    /\ Len(notes) = 3
    /\ notes[1].Tag # notes[3].Tag
    /\ notes[3].Tag = endTag

(***************************************************************************)
(* The window of a request whose two tags are the same.                    *)
(***************************************************************************)
SameTagListed ==
    /\ req.FromTag = req.ToTag
    /\ BoundaryIdx(ghReleases, req.FromTag, req.ToTag) # {}

\* C24: when fromTag equals toTag and a release carries that tag, the first
\* such release is both start and end boundary: exactly one note, of that
\* release, is returned and the scan stops there, whatever maxReleases is
\* and whatever follows in the listing.
C24_SameTagGivesOneNote ==
    (DataReturned /\ SameTagListed) =>
        LET first == Least(BoundaryIdx(ghReleases, req.FromTag, req.ToTag))
        IN  /\ Len(data.ReleaseNotes.elems) = 1
            /\ data.ReleaseNotes.elems[1].Tag = req.FromTag
            /\ data.ReleaseNotes.elems[1].Body =
                   Min(ghReleases[first].Body, MaxBodyLen)
            /\ notes = data.ReleaseNotes.elems
            /\ examined = first
            /\ calls.list_releases = PageOf(first)

\* The tag is carried by the first release and again by the second, with
\* the default limit: only the first is returned.
C24_Witness ==
    /\ DataReturned
    /\ SameTagListed
    /\ maxReleases > 1
    /\ Len(ghReleases) = 3
    /\ {1, 2} \subseteq BoundaryIdx(ghReleases, req.FromTag, req.ToTag)
    /\ Len(notes) = 1
    /\ examined = 1

(***************************************************************************)
(* The commit titles of the bundle.                                        *)
(***************************************************************************)
\* Positions of the commits of the comparison whose message is not blank.
TitledCommits(commits) ==
    {i \in 1..Len(commits) :
        /\ ~commits[i].isNil
        /\ commits[i].hasCommit
        /\ TrimSpace(commits[i].Message) # <<>>}

\* The first line of a message, without white space around it.
TrimmedFirstLine(message) == TrimSpace(SplitOn(TrimSpace(message), "\n")[1])

TitleFor(c, mode) ==
    IF mode = "deep"
    THEN FirstN(c.SHA, ShaPrefixLen) \o <<": ">> \o TrimmedFirstLine(c.Message)
    ELSE TrimmedFirstLine(c.Message)

\* C23: commitTitles holds, in compare order, one title per commit whose
\* message is not blank: the first line of the message without leading or
\* trailing white space, prefixed in deep mode with the first seven
\* characters of the commit hash and unprefixed in fast mode.
C23_CommitTitlesAreTrimmedFirstLines ==
    DataReturned =>
        LET T == TitledCommits(ghCompare.Commits)
        IN  data.CommitTitles.elems =
                [k \in 1..Cardinality(T) |->
                    TitleFor(ghCompare.Commits[Nth(T, k)], req.Mode)]

(***************************************************************************)
(* Failure of a provider call in the two page-walking operations.          *)
(***************************************************************************)
\* The last provider call of the request failed.
ProviderCallFailed == providerErr # NoError

\* C22: when a provider call fails (the compare call, or any page of the
\* tag or release listing, also after earlier pages succeeded), GetRepoTags
\* returns the mapped error with a nil tag sequence and fetchComparisonData
\* returns the mapped error with an empty comparisonData: nothing gathered
\* before the failure is returned.
C22_FailureReturnsNothingGathered ==
    /\ (handler = "detect" /\ ProviderCallFailed) =>
          /\ tags = NilSlice
          /\ err = mapGitHubError(providerErr)
          /\ err # NoError
          /\ detected = NoDetectResponse
    /\ (handler = "analyze" /\ ProviderCallFailed) =>
          /\ data = comparisonData(NilSlice, NilSlice, NilSlice)
          /\ err = mapGitHubError(providerErr)
          /\ err # NoError
          /\ DOMAIN prompt = {}
          /\ calls.ollama = 0

\* The second page of releases failed after the compare call had given
\* titles and the first page a note.
C22_Witness ==
    /\ handler = "analyze"
    /\ ProviderCallFailed
    /\ calls.compare_commits = 1
    /\ calls.list_releases = 2
    /\ commitTitles.elems # <<>>
    /\ Len(notes) >= 1
    /\ data = comparisonData(NilSlice, NilSlice, NilSlice)
    /\ pc = "done"

(***************************************************************************)
(* The order of the steps of one analyze request.                          *)
(***************************************************************************)
\* The calls a request makes to the provider and to the model.
UpstreamCalls(c) == c.compare_commits + c.list_releases + c.ollama

\* What has happened so far is an initial part of the one sequence
\* compare, release pages, prompt, model call, normalization, response.
StepsInSequence ==
    handler = "analyze" =>
        /\ calls.compare_commits <= 1
        /\ calls.list_releases <= PagesOf(ghReleases)
        /\ calls.ollama <= 1
        /\ calls.writes <= 1
        /\ calls.list_tags = 0
        /\ calls.list_releases >= 1 => calls.compare_commits = 1
        /\ PromptBuilt =>
              (calls.compare_commits = 1 /\ calls.list_releases >= 1 /\ DataReturned)
        /\ calls.ollama = 1 => PromptBuilt
        /\ AnalysisWritten => (calls.ollama = 1 /\ err = NoError)
        /\ (calls.writes = 1) <=> (pc = "done")
        /\ err # NoError =>
              (pc \in {"error", "done"} /\ ~AnalysisWritten /\ analysis = ZeroResponse)

\* One step of an analyze request: at most one call is issued, in the
\* order of the sequence; after a failed step no call is issued and nothing
\* is built, and after the response nothing changes.
StepInOrder ==
    handler = "analyze" =>
        /\ UpstreamCalls(calls') - UpstreamCalls(calls) \in {0, 1}
        /\ calls'.compare_commits >= calls.compare_commits
        /\ calls'.list_releases >= calls.list_releases
        /\ calls'.ollama >= calls.ollama
        /\ calls'.writes >= calls.writes
        /\ calls'.compare_commits > calls.compare_commits =>
              (calls.list_releases = 0 /\ calls.ollama = 0 /\ ~PromptBuilt)
        /\ calls'.list_releases > calls.list_releases =>
              (calls.ollama = 0 /\ ~PromptBuilt)
        /\ calls'.ollama > calls.ollama => (PromptBuilt /\ prompt' = prompt)
        /\ err # NoError =>
              /\ UpstreamCalls(calls') = UpstreamCalls(calls)
              /\ err' = err
              /\ prompt' = prompt
              /\ analysis' = analysis
              /\ data' = data
        /\ pc = "done" => (calls' = calls /\ response' = response /\ pc' = pc)

\* C21: within one analyze request the steps run in strict sequence with at
\* most one attempt each: one compare call before any release page, all
\* provider calls before the prompt, at most one model call and only after
\* the aggregation succeeded, normalization only after the model call
\* succeeded; after the first failing step, deadline expiry included, no
\* later step runs, nothing is retried, and exactly one response is written.
C21_StepsRunOnceInSequence ==
    []StepsInSequence /\ [][StepInOrder]_vars

\* The model call failed after the compare call and two release pages: one
\* response, no analysis.
C21_Witness ==
    /\ handler = "analyze"
    /\ pc = "done"
    /\ calls.compare_commits = 1
    /\ calls.list_releases = 2
    /\ calls.ollama = 1
    /\ calls.writes = 1
    /\ err # NoError
    /\ response.status # 200

=============================================================================
